---- MODULE Spec2Model ----
(***************************************************************************)
(* Model of the ev3dev python library: the motion monitor thread of        *)
(* navigation.py, the differential pilot's actuator writes, the button     *)
(* manager (process() and its scanner thread) of core.py, and the Device   *)
(* class of core.py with its cache of attribute files.                     *)
(*                                                                         *)
(* Each subsystem has its own group of variables and its own               *)
(* specification (SpecMonitor, SpecPilot, SpecScanner, SpecButtons,        *)
(* SpecBind, SpecAttr); a specification leaves the other groups unchanged. *)
(* SpecMonitorGone is SpecMonitor with motors that can be unplugged.       *)
(***************************************************************************)
EXTENDS Integers, Sequences, FiniteSets, TLC

(***************************************************************************)
(* Bounds of the model.                                                    *)
(***************************************************************************)
\* positions an actuator can report are 0..MaxPos
MaxPos == 1
\* polls one monitor makes before the model stops following it
MaxPolls == 3
\* scanner threads one manager creates before the model stops following it
MaxScanners == 2
\* sources (buttons) of a button manager are 1..MaxSources
MaxSources == 2
\* entries of the class directory
MaxEntries == 2
\* opens of one attribute file the model follows
MaxOpens == 2
\* the key bits set at one time in the input event files
MaxKeysDown == 2
\* the bin_data() calls made on the sensor
MaxCalls == 3

(***************************************************************************)
(* MotionMonitor (navigation.py): one monitor thread and one caller thread *)
(***************************************************************************)
VARIABLES
    m_pc,           \* position of the monitor thread in run()
    _stopped,       \* MotionMonitor._stopped
    _stalled,       \* MotionMonitor._stalled
    prev_positions, \* local of run(): <<>> stands for None
    s_p,            \* local of run(): the (state, position) pairs last read
    on_cb,          \* which of _on_start/_on_complete/_on_stalled are callables
    exit_by,        \* the way run() was left: the monitor's terminal state
    n_polls,        \* polls of (state, position) made so far
    n_start,        \* invocations of on_start so far
    n_complete,     \* invocations of on_complete so far
    n_stalled,      \* invocations of on_stalled so far
    c_pc,           \* position of the caller thread inside wait()/stop()
    c_delay,        \* the delay passed to wait(): "finite" or "None"
    wait_cancelled  \* a wait() found the thread alive, set _stopped and returned

mvars == <<m_pc, _stopped, _stalled, prev_positions, s_p, on_cb, exit_by,
           n_polls, n_start, n_complete, n_stalled, c_pc, c_delay, wait_cancelled>>

(***************************************************************************)
(* DifferentialPilot (navigation.py): the attribute writes of one command  *)
(***************************************************************************)
VARIABLES
    p_call,     \* the pilot command being executed (or last executed)
    p_prog,     \* attribute writes the command has still to make
    p_end,      \* how the command ends once its writes are made
    p_log,      \* attribute writes the command has made, in order
    p_result    \* "idle", "running", or how the command ended

pvars == <<p_call, p_prog, p_end, p_log, p_result>>

(***************************************************************************)
(* ButtonManagerBase (core.py): the scanner thread and its start and stop  *)
(***************************************************************************)
VARIABLES
    _scanner,   \* ButtonManagerBase._scanner: 0 for None, else the thread
    _stop_scan, \* ButtonManagerBase._stop_scan
    t_pc,       \* position of each scanner thread in _scan_buttons()
    a_pc,       \* position of the application thread: "idle" or inside stop_scanner()
    a_ret,      \* the last start_scanner()/stop_scanner() call and what it returned
    j_slept     \* the joined thread has slept since stop_scanner() began its join

svars == <<_scanner, _stop_scan, t_pc, a_pc, a_ret, j_slept>>

(***************************************************************************)
(* ButtonManagerBase (core.py): process() and the handler slots            *)
(***************************************************************************)
VARIABLES
    b_kind,      \* the class of the manager: "none" before it is constructed
    b_slot,      \* the on_<button> attribute of each source: absent, None or callable
    b_on_change, \* the on_change attribute: None or callable
    _state,      \* ButtonManagerBase._state: a set or a list of sources
    b_new,       \* the sources buttons_pressed reported to the last process()
    b_calls,     \* the per-source handler calls of the last process(), in order
    b_agg,       \* the on_change calls of the last process(): each a list of pairs
    b_raised,    \* the exception the last process() raised, or "none"
    b_tick,      \* flips at every process() call
    b_last       \* the value last passed to the handler of each source: <<>> if none

bvars == <<b_kind, b_slot, b_on_change, _state, b_new, b_calls, b_agg, b_raised, b_tick,
           b_last>>

(***************************************************************************)
(* ButtonManagerEVIO (core.py): the key state buffers and buttons_pressed   *)
(***************************************************************************)
VARIABLES
    e_buttons,     \* <<the _buttons of the manager's class>>, <<>> before construction
    _buffer_cache, \* ButtonManagerEVIO._buffer_cache: input path -> byte array
    e_ioctls,      \* the EVIOCGKEY ioctls of the last buttons_pressed, as <<path>> each
    e_read,        \* the key state the kernel held at the last buttons_pressed
    e_pressed      \* what the last buttons_pressed returned: <<>> or <<set of names>>

evars == <<e_buttons, _buffer_cache, e_ioctls, e_read, e_pressed>>

(***************************************************************************)
(* Device (core.py): one device object, its class directory, its cache     *)
(***************************************************************************)
VARIABLES
    tree,             \* the entries of /sys/class/<SYSTEM_CLASS_NAME>, in listing order
    d_new,            \* the Device(name, **kwargs) call made, and how it ended
    connected,        \* Device.connected
    _path,            \* Device._path: 0 for '', else the entry of tree it names
    _device_index,    \* Device._device_index: <<>> for None, else <<n>>
    _attribute_cache, \* Device._attribute_cache: "None" or "DeviceFileCache"
    _cache,           \* FileCache._cache of that cache: key -> handle
    sysfs,            \* the value the kernel holds for each attribute of the entry
    n_open,           \* successful _open_file() calls made for each key
    d_ret,            \* the last attribute operation and how it ended
    w_over            \* a write has replaced the text of an attribute by a shorter one

dvars == <<tree, d_new, connected, _path, _device_index, _attribute_cache, _cache,
           sysfs, n_open, d_ret, w_over>>

(***************************************************************************)
(* Sensor (sensors.py): bin_data() and the size of the block it reads      *)
(***************************************************************************)
VARIABLES
    sn_format,      \* the text the kernel holds in bin_data_format: <<>> without sensor
    sn_values,      \* the number the kernel holds in num_values
    _bin_data_size, \* Sensor._bin_data_size: <<>> for None, else <<n>>
    sn_reads,       \* how often bin_data_format and num_values have been read
    sn_calls,       \* the bin_data() calls made
    sn_ret          \* how the last bin_data() ended, the path it opened, the bytes it read

nvars == <<sn_format, sn_values, _bin_data_size, sn_reads, sn_calls, sn_ret>>

vars == <<mvars, pvars, svars, bvars, evars, dvars, nvars>>

\* what the steps of one subsystem leave unchanged: the other subsystems
notMonitor == <<pvars, svars, bvars, evars, dvars, nvars>>
notPilot == <<mvars, svars, bvars, evars, dvars, nvars>>
notScanner == <<mvars, pvars, bvars, evars, dvars, nvars>>
notButtons == <<mvars, pvars, svars, evars, dvars, nvars>>
notEVIO == <<mvars, pvars, svars, bvars, dvars, nvars>>
notDevice == <<mvars, pvars, svars, bvars, evars, nvars>>
notSensor == <<mvars, pvars, svars, bvars, evars, dvars>>

\* the pilot's two motors: (left_motor, right_motor)
Motors == 1..2

\* the tokens of the motors' state attribute the model distinguishes
StateFlags == {"running", "holding"}

\* one reading of (_m.state, _m.position)
Readings == [state : SUBSET StateFlags, position : 0..MaxPos]

Callbacks == {"on_start", "on_complete", "on_stalled"}

\* all(('holding' in s for s, _ in s_p))
AllHolding(sp) == \A i \in DOMAIN sp : "holding" \in sp[i].state

\* mutant of StallSeen: the test forgets that a holding actuator does not move
StallSeen_IgnoreHolding(prev, sp) ==
    /\ prev # <<>>
    /\ \E i \in (DOMAIN prev) \cap (DOMAIN sp) : prev[i] = sp[i].position

\* prev_positions and any((pp == sp[1] and 'holding' not in sp[0] for pp, sp in zip(prev_positions, s_p)))
StallSeen(prev, sp) ==
    /\ prev # <<>>
    /\ \E i \in (DOMAIN prev) \cap (DOMAIN sp) :
          prev[i] = sp[i].position /\ "holding" \notin sp[i].state

\* Thread.is_alive(): started and run() not yet left
IsAlive == m_pc \notin {"none", "done"}

MonitorInit ==
    /\ m_pc = "none"
    /\ _stopped = FALSE
    /\ _stalled = FALSE
    /\ prev_positions = <<>>
    /\ s_p = <<>>
    /\ on_cb = {}
    /\ exit_by = "Running"
    /\ n_polls = 0
    /\ n_start = 0
    /\ n_complete = 0
    /\ n_stalled = 0
    /\ c_pc = "idle"
    /\ c_delay = "finite"
    /\ wait_cancelled = FALSE

\* travel()/rotate()/arc(): MotionMonitor(...) is constructed and started
StartMonitor(cbs) ==
    /\ m_pc = "none"
    /\ m_pc' = "run"
    /\ on_cb' = cbs
    /\ _stalled' = FALSE
    /\ _stopped' = FALSE
    /\ UNCHANGED <<prev_positions, s_p, exit_by, n_polls, n_start, n_complete,
                   n_stalled, c_pc, c_delay, wait_cancelled>>
    /\ UNCHANGED notMonitor

\* mutant of RunBegin: run() forgets to call on_start
RunBegin_NoStart ==
    /\ m_pc = "run"
    /\ prev_positions' = <<>>
    /\ m_pc' = "loop"
    /\ UNCHANGED <<_stopped, _stalled, s_p, on_cb, exit_by, n_polls, n_start, n_complete,
                   n_stalled, c_pc, c_delay, wait_cancelled>>
    /\ UNCHANGED notMonitor

\* run(): the on_start call and the initialisation of the locals
RunBegin ==
    /\ m_pc = "run"
    /\ n_start' = IF "on_start" \in on_cb THEN n_start + 1 ELSE n_start
    /\ prev_positions' = <<>>
    /\ m_pc' = "loop"
    /\ UNCHANGED <<_stopped, _stalled, s_p, on_cb, exit_by, n_polls, n_complete,
                   n_stalled, c_pc, c_delay, wait_cancelled>>
    /\ UNCHANGED notMonitor

\* run(): while not self._stopped
LoopTest ==
    /\ m_pc = "loop"
    /\ IF _stopped
          THEN m_pc' = "done" /\ exit_by' = "Cancelled"
          ELSE m_pc' = "poll" /\ UNCHANGED exit_by
    /\ UNCHANGED <<_stopped, _stalled, prev_positions, s_p, on_cb, n_polls, n_start,
                   n_complete, n_stalled, c_pc, c_delay, wait_cancelled>>
    /\ UNCHANGED notMonitor

\* run(): s_p = [(_m.state, _m.position) for _m in motors]
Poll(r) ==
    /\ m_pc = "poll"
    /\ n_polls < MaxPolls
    /\ s_p' = r
    /\ n_polls' = n_polls + 1
    /\ m_pc' = "eval"
    /\ UNCHANGED <<_stopped, _stalled, prev_positions, on_cb, exit_by, n_start,
                   n_complete, n_stalled, c_pc, c_delay, wait_cancelled>>
    /\ UNCHANGED notMonitor

\* mutant of EvalComplete: the return after on_complete is missing, so the body
\* falls through to the stall test (false when all hold), the snapshot and the sleep
EvalComplete_NoReturn ==
    /\ AllHolding(s_p)
    /\ n_complete' = IF "on_complete" \in on_cb THEN n_complete + 1 ELSE n_complete
    /\ prev_positions' = [i \in DOMAIN s_p |-> s_p[i].position]
    /\ m_pc' = "loop"
    /\ UNCHANGED <<_stalled, exit_by, n_stalled>>

\* run(): the completion branch, on_complete and return
EvalComplete ==
    /\ AllHolding(s_p)
    /\ n_complete' = IF "on_complete" \in on_cb THEN n_complete + 1 ELSE n_complete
    /\ m_pc' = "done"
    /\ exit_by' = "Completed"
    /\ UNCHANGED <<_stalled, prev_positions, n_stalled>>

\* mutant of EvalStalled: the return after on_stalled is missing, so the body
\* goes on to the snapshot and the sleep
EvalStalled_NoReturn ==
    /\ ~AllHolding(s_p)
    /\ StallSeen(prev_positions, s_p)
    /\ _stalled' = TRUE
    /\ n_stalled' = IF "on_stalled" \in on_cb THEN n_stalled + 1 ELSE n_stalled
    /\ prev_positions' = [i \in DOMAIN s_p |-> s_p[i].position]
    /\ m_pc' = "loop"
    /\ UNCHANGED <<exit_by, n_complete>>

\* run(): the stall branch, _stalled = True, on_stalled and return
EvalStalled ==
    /\ ~AllHolding(s_p)
    /\ StallSeen(prev_positions, s_p)
    /\ _stalled' = TRUE
    /\ n_stalled' = IF "on_stalled" \in on_cb THEN n_stalled + 1 ELSE n_stalled
    /\ m_pc' = "done"
    /\ exit_by' = "Stalled"
    /\ UNCHANGED <<prev_positions, n_complete>>

\* run(): prev_positions = [p for _, p in s_p]; time.sleep(0.1)
EvalContinue ==
    /\ ~AllHolding(s_p)
    /\ ~StallSeen(prev_positions, s_p)
    /\ prev_positions' = [i \in DOMAIN s_p |-> s_p[i].position]
    /\ m_pc' = "loop"
    /\ UNCHANGED <<_stalled, exit_by, n_complete, n_stalled>>

\* run(): what the loop body does with the pairs just read
Eval ==
    /\ m_pc = "eval"
    /\ (EvalComplete \/ EvalStalled \/ EvalContinue)
    /\ UNCHANGED <<_stopped, s_p, on_cb, n_polls, n_start, c_pc, c_delay, wait_cancelled>>
    /\ UNCHANGED notMonitor

\* wait(delay): the caller enters self.join(delay)
WaitCall(delay) ==
    /\ c_pc = "idle"
    /\ m_pc # "none"
    /\ c_pc' = "wait_join"
    /\ c_delay' = delay
    /\ UNCHANGED <<m_pc, _stopped, _stalled, prev_positions, s_p, on_cb, exit_by,
                   n_polls, n_start, n_complete, n_stalled, wait_cancelled>>
    /\ UNCHANGED notMonitor

\* wait(): join(delay) returns, the thread having ended or the delay having expired
WaitJoinReturn ==
    /\ c_pc = "wait_join"
    /\ (~IsAlive \/ c_delay = "finite")
    /\ c_pc' = "wait_alive"
    /\ UNCHANGED <<m_pc, _stopped, _stalled, prev_positions, s_p, on_cb, exit_by,
                   n_polls, n_start, n_complete, n_stalled, c_delay, wait_cancelled>>
    /\ UNCHANGED notMonitor

\* wait(): if self.is_alive()
WaitIsAlive ==
    /\ c_pc = "wait_alive"
    /\ c_pc' = IF IsAlive THEN "wait_set" ELSE "idle"
    /\ UNCHANGED <<m_pc, _stopped, _stalled, prev_positions, s_p, on_cb, exit_by,
                   n_polls, n_start, n_complete, n_stalled, c_delay, wait_cancelled>>
    /\ UNCHANGED notMonitor

\* mutant of WaitSetStopped: wait() returns without setting _stopped
WaitSetStopped_Forgets ==
    /\ c_pc = "wait_set"
    /\ wait_cancelled' = TRUE
    /\ c_pc' = "idle"
    /\ UNCHANGED <<m_pc, _stopped, _stalled, prev_positions, s_p, on_cb, exit_by,
                   n_polls, n_start, n_complete, n_stalled, c_delay>>
    /\ UNCHANGED notMonitor

\* wait(): self._stopped = True; return self
WaitSetStopped ==
    /\ c_pc = "wait_set"
    /\ _stopped' = TRUE
    /\ wait_cancelled' = TRUE
    /\ c_pc' = "idle"
    /\ UNCHANGED <<m_pc, _stalled, prev_positions, s_p, on_cb, exit_by,
                   n_polls, n_start, n_complete, n_stalled, c_delay>>
    /\ UNCHANGED notMonitor

\* stop(): self._stopped = True, then the caller enters self.join()
StopCall ==
    /\ c_pc = "idle"
    /\ m_pc # "none"
    /\ _stopped' = TRUE
    /\ c_pc' = "stop_join"
    /\ UNCHANGED <<m_pc, _stalled, prev_positions, s_p, on_cb, exit_by,
                   n_polls, n_start, n_complete, n_stalled, c_delay, wait_cancelled>>
    /\ UNCHANGED notMonitor

\* mutant of StopJoinReturn: the join of stop() has a delay that may expire
StopJoinReturn_Timed ==
    /\ c_pc = "stop_join"
    /\ c_pc' = "idle"
    /\ UNCHANGED <<m_pc, _stopped, _stalled, prev_positions, s_p, on_cb, exit_by,
                   n_polls, n_start, n_complete, n_stalled, c_delay, wait_cancelled>>
    /\ UNCHANGED notMonitor

\* stop(): self.join() returns once the thread has ended
StopJoinReturn ==
    /\ c_pc = "stop_join"
    /\ ~IsAlive
    /\ c_pc' = "idle"
    /\ UNCHANGED <<m_pc, _stopped, _stalled, prev_positions, s_p, on_cb, exit_by,
                   n_polls, n_start, n_complete, n_stalled, c_delay, wait_cancelled>>
    /\ UNCHANGED notMonitor

\* run(): a read of _m.state or _m.position raises (the attribute file of an
\* unplugged motor); run() has no handler, the exception leaves run() and the
\* thread ends, with _stalled untouched and no callback invoked
PollRaises ==
    /\ m_pc = "poll"
    /\ n_polls < MaxPolls
    /\ n_polls' = n_polls + 1
    /\ m_pc' = "done"
    /\ exit_by' = "Raised"
    /\ UNCHANGED <<_stopped, _stalled, prev_positions, s_p, on_cb, n_start,
                   n_complete, n_stalled, c_pc, c_delay, wait_cancelled>>
    /\ UNCHANGED notMonitor

\* run(): the read of the loop of a monitor that polls for as long as it is
\* not stopped; n_polls counts the polls up to MaxPolls
PollOn(r) ==
    /\ m_pc = "poll"
    /\ s_p' = r
    /\ n_polls' = IF n_polls < MaxPolls THEN n_polls + 1 ELSE n_polls
    /\ m_pc' = "eval"
    /\ UNCHANGED <<_stopped, _stalled, prev_positions, on_cb, exit_by, n_start,
                   n_complete, n_stalled, c_pc, c_delay, wait_cancelled>>
    /\ UNCHANGED notMonitor

\* the readings of a motor that runs or holds
RunOrHold == {r \in Readings : r.state \in {{"running"}, {"holding"}}}

\* the steps of the monitor's thread
MonitorThread == RunBegin \/ LoopTest \/ (\E r \in [Motors -> RunOrHold] : PollOn(r)) \/ Eval

\* the steps that take the caller out of wait(): the join returns (the thread
\* has ended or the finite delay has expired), the test, the assignment
WaitReturns == WaitJoinReturn \/ WaitIsAlive \/ WaitSetStopped

MonitorLiveNext ==
    \/ \E cbs \in {{}, Callbacks} : StartMonitor(cbs)
    \/ RunBegin
    \/ LoopTest
    \/ \E r \in [Motors -> RunOrHold] : PollOn(r)
    \/ Eval
    \/ \E d \in {"finite", "None"} : WaitCall(d)
    \/ WaitJoinReturn
    \/ WaitIsAlive
    \/ WaitSetStopped

MonitorNext ==
    \/ \E cbs \in SUBSET Callbacks : StartMonitor(cbs)
    \/ RunBegin
    \/ LoopTest
    \/ \E r \in [Motors -> Readings] : Poll(r)
    \/ Eval
    \/ \E d \in {"finite", "None"} : WaitCall(d)
    \/ WaitJoinReturn
    \/ WaitIsAlive
    \/ WaitSetStopped
    \/ StopCall
    \/ StopJoinReturn

(***************************************************************************)
(* DifferentialPilot: drive, travel, rotate, rotate_forever, arc, steer    *)
(***************************************************************************)
\* steer(): turn_rate is clipped to [-TurnRateLimit, TurnRateLimit]
TurnRateLimit == 200

\* an optional argument: None, or a number
None == <<>>

Some(x) == <<x>>

\* the values of the arguments the model distinguishes
SpeedArgs == {None, Some(100), Some(-100)}
TurnRates == {-250, -200, -50, 0, 50, 200, 250}
Radii == {0, 100}
Distances == {0, 200}
Angles == {-90, 90, 100}

\* floats are modelled as fractions n/d in lowest terms, d > 0
Abs(x) == IF x < 0 THEN 0 - x ELSE x

RECURSIVE GCD(_, _)
GCD(a, b) == IF b = 0 THEN a ELSE GCD(b, a % b)

Rat(n, d) ==
    LET g == GCD(Abs(n), Abs(d))
        s == IF d < 0 THEN -1 ELSE 1
    IN  [n |-> s * (n \div g), d |-> s * (d \div g)]

RMul(x, y) == Rat(x.n * y.n, x.d * y.d)

RDiv(x, y) == Rat(x.n * y.d, x.d * y.n)

RAdd(x, y) == Rat(x.n * y.d + y.n * x.d, x.d * y.d)

RInt(k) == [n |-> k, d |-> 1]

\* math.pi, to seven digits
Pi == Rat(355, 113)

\* math.degrees(x), math.radians(x)
Degrees(x) == RDiv(RMul(x, RInt(180)), Pi)

Radians(x) == RDiv(RMul(x, Pi), RInt(180))

\* mutant of PyRound: the fraction is dropped
PyRound_Truncate(x) ==
    IF x.n >= 0 THEN x.n \div x.d ELSE 0 - ((0 - x.n) \div x.d)

\* round(x): the nearest integer, halves away from zero
PyRound(x) ==
    IF x.n >= 0 THEN (2 * x.n + x.d) \div (2 * x.d)
    ELSE 0 - ((2 * (0 - x.n) + x.d) \div (2 * x.d))

\* int(x) of set_attr_int(): the fraction is dropped, towards zero
PyTrunc(x) ==
    IF x.n >= 0 THEN x.n \div x.d ELSE 0 - ((0 - x.n) \div x.d)

\* the pilot the commands are run on: wheel diameter 43.2, track width 140,
\* motors of 360 counts per rotation, no default speed set
_wheel_diam == Rat(432, 10)

_track_width == 140

count_per_rot == 360

_travel_speed == 0

_rotate_speed == 0

\* __init__: self._dist_per_pulse, self._rotation_per_pulse
_dist_per_pulse == RDiv(RMul(_wheel_diam, Pi), RInt(count_per_rot))

_rotation_per_pulse ==
    Degrees(RMul(RDiv(_dist_per_pulse, RInt(_track_width)), RInt(2)))

\* _pulses_per_sec_linear(speed), _pulses_per_sec_angular(speed)
PulsesPerSecLinear(speed) == PyRound(RDiv(speed, _dist_per_pulse))

PulsesPerSecAngular(speed) == PyRound(RDiv(speed, _rotation_per_pulse))

\* speed or default
Or(speed, default) == IF speed = None \/ speed[1] = 0 THEN default ELSE speed[1]

\* one write of an attribute of motor m
W(m, a, v) == [motor |-> m, attr |-> a, val |-> v]

\* the run commands: the other attributes are setpoints
IsCommand(w) == w.attr = "command"

\* m.speed_regulation_enabled = SPEED_REGULATION_ON; m.speed_sp = v
SpeedWrites(m, v) == <<W(m, "speed_regulation", "on"), W(m, "speed_sp", v)>>

\* _motors_sync_start(command): for m in self._motors: m.command = command
MotorsSyncStart(command) == [m \in Motors |-> W(m, "command", command)]

\* what a command does: its writes in order, then how it ends
Prog(writes, end) == [writes |-> writes, end |-> end]

\* drive(speed): the setpoints, then _motors_sync_start() called without its
\* command argument, which raises TypeError before any write
DriveProg(speed) ==
    LET pulses_per_sec == PulsesPerSecLinear(RInt(Or(speed, _travel_speed)))
    IN  Prog(SpeedWrites(1, pulses_per_sec) \o SpeedWrites(2, pulses_per_sec), "TypeError")

\* travel(distance, speed, ...)
TravelProg(distance, speed) ==
    LET pulses == PyRound(RDiv(RInt(distance), _dist_per_pulse))
        pulses_per_sec == PulsesPerSecLinear(RInt(Or(speed, _travel_speed)))
    IN  Prog(<<W(1, "position_sp", pulses)>> \o SpeedWrites(1, pulses_per_sec)
                \o <<W(2, "position_sp", pulses)>> \o SpeedWrites(2, pulses_per_sec)
                \o MotorsSyncStart("run-to-rel-pos"),
             "monitor")

\* mutant of RotateProg: the same position setpoint for both motors
RotateProg_SameSign(angle, speed) ==
    LET pulses_per_sec == PulsesPerSecAngular(RInt(Or(speed, _rotate_speed)))
        pulses == PyRound(RDiv(RInt(angle), _rotation_per_pulse))
    IN  Prog(SpeedWrites(1, pulses_per_sec) \o SpeedWrites(2, pulses_per_sec)
                \o <<W(1, "position_sp", pulses), W(2, "position_sp", pulses)>>
                \o MotorsSyncStart("run-to-rel-pos"),
             "monitor")

\* rotate(angle, speed, ...)
RotateProg(angle, speed) ==
    LET pulses_per_sec == PulsesPerSecAngular(RInt(Or(speed, _rotate_speed)))
        pulses == PyRound(RDiv(RInt(angle), _rotation_per_pulse))
    IN  Prog(SpeedWrites(1, pulses_per_sec) \o SpeedWrites(2, pulses_per_sec)
                \o <<W(1, "position_sp", 0 - pulses), W(2, "position_sp", pulses)>>
                \o MotorsSyncStart("run-to-rel-pos"),
             "monitor")

\* rotate_forever(speed): speed has no default, None fails in _pulses_per_sec_angular
RotateForeverProg(speed) ==
    IF speed = None
       THEN Prog(<<>>, "TypeError")
       ELSE LET pulses_per_sec == PulsesPerSecAngular(RInt(speed[1]))
            IN  Prog(SpeedWrites(1, pulses_per_sec * (-1)) \o SpeedWrites(2, pulses_per_sec)
                        \o MotorsSyncStart("run-forever"),
                     "returned")

\* arc(): the writes for one motor, on the side -1 (left) or 1 (right); the
\* position setpoint is a float that set_attr_int() converts with int()
ArcWrites(m, side, radius, angle, speed) ==
    LET tw_2 == Rat(_track_width, 2)
        bias == RDiv(tw_2, RInt(radius))
        s == RMul(RInt(speed), RAdd(RInt(1), RMul(RInt(side), bias)))
        rd == Radians(RInt(angle))
        d == RMul(RAdd(RInt(radius), RMul(RInt(side), tw_2)), rd)
    IN  SpeedWrites(m, PulsesPerSecLinear(s))
           \o <<W(m, "position_sp", PyTrunc(RDiv(d, _dist_per_pulse)))>>

\* mutant of ArcProg: no test of a null radius, whose bias divides by zero
ArcProg_NoRotate(radius, angle, speed) ==
    IF radius = 0
       THEN Prog(<<>>, "ZeroDivisionError")
       ELSE Prog(ArcWrites(1, -1, radius, angle, Abs(Or(speed, _travel_speed)))
                    \o ArcWrites(2, 1, radius, angle, Abs(Or(speed, _travel_speed)))
                    \o MotorsSyncStart("run-to-rel-pos"),
                 "monitor")

\* arc(radius, angle, speed, ...)
ArcProg(radius, angle, speed) ==
    IF radius = 0
       THEN RotateProg(angle, None)
       ELSE Prog(ArcWrites(1, -1, radius, angle, Abs(Or(speed, _travel_speed)))
                    \o ArcWrites(2, 1, radius, angle, Abs(Or(speed, _travel_speed)))
                    \o MotorsSyncStart("run-to-rel-pos"),
                 "monitor")

\* min(max(turn_rate, -200), 200)
Clip(turn_rate) ==
    IF turn_rate < -TurnRateLimit THEN -TurnRateLimit
    ELSE IF turn_rate > TurnRateLimit THEN TurnRateLimit
    ELSE turn_rate

\* steer(): ratio = float(100 - abs(turn_rate)), and the speed it is applied to
SteerRatio(turn_rate) == RInt(100 - Abs(turn_rate))

\* steer(turn_rate, speed): speed * ratio fails on speed = None
SteerProg(turn_rate, speed) ==
    IF turn_rate = 0 THEN DriveProg(speed)
    ELSE IF Clip(turn_rate) \in {-TurnRateLimit, TurnRateLimit} THEN RotateForeverProg(speed)
    ELSE IF speed = None THEN Prog(<<>>, "TypeError")
    ELSE LET full == PulsesPerSecLinear(RInt(speed[1]))
             ratio == PulsesPerSecLinear(RMul(RInt(speed[1]), SteerRatio(Clip(turn_rate))))
         IN  IF Clip(turn_rate) > 0
             THEN Prog(SpeedWrites(1, ratio) \o SpeedWrites(2, full)
                          \o MotorsSyncStart("run-forever"), "returned")
             ELSE Prog(SpeedWrites(1, full) \o SpeedWrites(2, ratio)
                          \o MotorsSyncStart("run-forever"), "returned")

PilotInit ==
    /\ p_call = [name |-> "none", arg |-> 0, angle |-> 0, speed |-> None]
    /\ p_prog = <<>>
    /\ p_end = "returned"
    /\ p_log = <<>>
    /\ p_result = "idle"

\* the caller enters a pilot command
PilotCall(name, arg, angle, speed, prog) ==
    /\ p_result # "running"
    /\ p_call' = [name |-> name, arg |-> arg, angle |-> angle, speed |-> speed]
    /\ p_prog' = prog.writes
    /\ p_end' = prog.end
    /\ p_log' = <<>>
    /\ p_result' = "running"
    /\ UNCHANGED notPilot

Drive(speed) == PilotCall("drive", 0, 0, speed, DriveProg(speed))
\* forward(speed), backward(speed): self.drive(abs(...)), self.drive(-abs(...))
Forward(speed) ==
    PilotCall("forward", 0, 0, speed, DriveProg(Some(Abs(Or(speed, _travel_speed)))))
Backward(speed) ==
    PilotCall("backward", 0, 0, speed, DriveProg(Some(0 - Abs(Or(speed, _travel_speed)))))
\* travel(distance, speed): the same statements whatever the distance
Travel(distance, speed) == PilotCall("travel", distance, 0, speed, TravelProg(distance, speed))
Rotate(angle, speed) == PilotCall("rotate", 0, angle, speed, RotateProg(angle, speed))
RotateForever(speed) == PilotCall("rotate_forever", 0, 0, speed, RotateForeverProg(speed))
Arc(radius, angle, speed) ==
    PilotCall("arc", radius, angle, speed, ArcProg(radius, angle, speed))
Steer(turn_rate, speed) == PilotCall("steer", turn_rate, 0, speed, SteerProg(turn_rate, speed))

\* the command makes its next attribute write
PilotWrite ==
    /\ p_result = "running"
    /\ p_prog # <<>>
    /\ p_log' = Append(p_log, Head(p_prog))
    /\ p_prog' = Tail(p_prog)
    /\ UNCHANGED <<p_call, p_end, p_result>>
    /\ UNCHANGED notPilot

\* the command returns (with a started monitor where it makes one) or raises
PilotEnd ==
    /\ p_result = "running"
    /\ p_prog = <<>>
    /\ p_result' = p_end
    /\ UNCHANGED <<p_call, p_prog, p_end, p_log>>
    /\ UNCHANGED notPilot

PilotNext ==
    \/ \E speed \in SpeedArgs : Drive(speed)
    \/ \E speed \in SpeedArgs : Forward(speed)
    \/ \E speed \in SpeedArgs : Backward(speed)
    \/ \E distance \in Distances, speed \in SpeedArgs : Travel(distance, speed)
    \/ \E angle \in Angles, speed \in SpeedArgs : Rotate(angle, speed)
    \/ \E speed \in SpeedArgs : RotateForever(speed)
    \/ \E radius \in Radii, angle \in Angles, speed \in SpeedArgs : Arc(radius, angle, speed)
    \/ \E turn_rate \in TurnRates, speed \in SpeedArgs : Steer(turn_rate, speed)
    \/ PilotWrite
    \/ PilotEnd

(***************************************************************************)
(* ButtonManagerBase: start_scanner, stop_scanner, _scan_buttons           *)
(***************************************************************************)
Scanners == 1..MaxScanners

\* Thread.is_alive() of a scanner thread
ScannerAlive(t) == t_pc[t] \notin {"unborn", "dead"}

ScannerInit ==
    /\ _scanner = 0
    /\ _stop_scan = FALSE
    /\ t_pc = [t \in Scanners |-> "unborn"]
    /\ a_pc = "idle"
    /\ a_ret = [op |-> "none", val |-> FALSE]
    /\ j_slept = FALSE

\* the thread object a successful start_scanner() creates next
FreshScanner(t) == t_pc[t] = "unborn" /\ \A u \in Scanners : u < t => t_pc[u] # "unborn"

\* start_scanner()
StartScanner ==
    /\ a_pc = "idle"
    /\ IF _scanner = 0
          THEN \E t \in Scanners :
                 /\ FreshScanner(t)
                 /\ _scanner' = t
                 /\ t_pc' = [t_pc EXCEPT ![t] = "init"]
                 /\ a_ret' = [op |-> "start", val |-> TRUE]
          ELSE /\ a_ret' = [op |-> "start", val |-> FALSE]
               /\ UNCHANGED <<_scanner, t_pc>>
    /\ UNCHANGED <<_stop_scan, a_pc, j_slept>>
    /\ UNCHANGED notScanner

\* stop_scanner(): the test of self._scanner, _stop_scan = True, entering join(10)
StopScannerCall ==
    /\ a_pc = "idle"
    /\ IF _scanner # 0
          THEN /\ _stop_scan' = TRUE
               /\ a_pc' = "join"
               /\ j_slept' = FALSE
               /\ UNCHANGED a_ret
          ELSE /\ a_ret' = [op |-> "stop", val |-> FALSE]
               /\ UNCHANGED <<_stop_scan, a_pc, j_slept>>
    /\ UNCHANGED <<_scanner, t_pc>>
    /\ UNCHANGED notScanner

\* join(10) expires only after 10 s: the thread is then inside process() or has
\* slept (0.1 s) since the join began
JoinExpired(t) == t_pc[t] = "in_process" \/ j_slept

\* stop_scanner(): join(10) returns; self._scanner = None; return True
StopScannerReturn ==
    /\ a_pc = "join"
    /\ (~ScannerAlive(_scanner) \/ JoinExpired(_scanner))
    /\ _scanner' = 0
    /\ a_pc' = "idle"
    /\ a_ret' = [op |-> "stop", val |-> TRUE]
    /\ UNCHANGED <<_stop_scan, t_pc, j_slept>>
    /\ UNCHANGED notScanner

\* _scan_buttons(): self._stop_scan = False
ScanBegin(t) ==
    /\ t_pc[t] = "init"
    /\ _stop_scan' = FALSE
    /\ t_pc' = [t_pc EXCEPT ![t] = "test"]
    /\ UNCHANGED <<_scanner, a_pc, a_ret, j_slept>>
    /\ UNCHANGED notScanner

\* _scan_buttons(): while not self._stop_scan
ScanTest(t) ==
    /\ t_pc[t] = "test"
    /\ t_pc' = [t_pc EXCEPT ![t] = IF _stop_scan THEN "dead" ELSE "call"]
    /\ UNCHANGED <<_scanner, _stop_scan, a_pc, a_ret, j_slept>>
    /\ UNCHANGED notScanner

\* _scan_buttons(): self.process() is called
ScanProcess(t) ==
    /\ t_pc[t] = "call"
    /\ t_pc' = [t_pc EXCEPT ![t] = "in_process"]
    /\ UNCHANGED <<_scanner, _stop_scan, a_pc, a_ret, j_slept>>
    /\ UNCHANGED notScanner

\* _scan_buttons(): process() returns, or raises and ends the thread
ScanProcessEnd(t, raised) ==
    /\ t_pc[t] = "in_process"
    /\ t_pc' = [t_pc EXCEPT ![t] = IF raised THEN "dead" ELSE "sleep"]
    /\ UNCHANGED <<_scanner, _stop_scan, a_pc, a_ret, j_slept>>
    /\ UNCHANGED notScanner

\* _scan_buttons(): time.sleep(0.1)
ScanSleep(t) ==
    /\ t_pc[t] = "sleep"
    /\ t_pc' = [t_pc EXCEPT ![t] = "test"]
    /\ j_slept' = (j_slept \/ (a_pc = "join" /\ _scanner = t))
    /\ UNCHANGED <<_scanner, _stop_scan, a_pc, a_ret>>
    /\ UNCHANGED notScanner

ScannerNext ==
    \/ StartScanner
    \/ StopScannerCall
    \/ StopScannerReturn
    \/ \E t \in Scanners : ScanBegin(t)
    \/ \E t \in Scanners : ScanTest(t)
    \/ \E t \in Scanners : ScanProcess(t)
    \/ \E t \in Scanners, raised \in BOOLEAN : ScanProcessEnd(t, raised)
    \/ \E t \in Scanners : ScanSleep(t)

(***************************************************************************)
(* ButtonManagerBase.process() on the managers of the library              *)
(***************************************************************************)
Sources == 1..MaxSources

\* Buttons (ev3/platform.py), RemoteControl (sensors.py), and a subclass that
\* defines buttons_pressed and no on_<button> attribute
ManagerKinds == {"Buttons", "RemoteControl", "Custom"}

\* the class attributes on_<button>: no-op static methods in Buttons, None in
\* RemoteControl
DefaultSlot(kind) ==
    IF kind = "Buttons" THEN "fn" ELSE IF kind = "RemoteControl" THEN "None" ELSE "absent"

\* buttons_pressed: a set in ButtonManagerEVIO, a list of _BUTTON_VALUES in RemoteControl
ButtonsPressed(kind, pressed) ==
    [type |-> IF kind = "RemoteControl" THEN "list" ELSE "set", elems |-> pressed]

\* new_state.symmetric_difference(old_state)
SymmetricDifference(a, b) == (a \ b) \cup (b \ a)

\* the orders in which a for loop can go through the set d
Orders(d) ==
    {f \in [1..Cardinality(d) -> d] : \A i, j \in 1..Cardinality(d) : f[i] = f[j] => i = j}

\* the for loop over state_diff, from its i-th element on: getattr raising
\* AttributeError is swallowed, a None handler raises TypeError out of the loop,
\* as does the exception of a handler that raises
RECURSIVE Dispatch(_, _, _, _)
Dispatch(order, i, new, calls) ==
    IF i > Len(order) THEN [calls |-> calls, raised |-> "none"]
    ELSE IF b_slot[order[i]] = "absent" THEN Dispatch(order, i + 1, new, calls)
    ELSE IF b_slot[order[i]] = "None" THEN [calls |-> calls, raised |-> "TypeError"]
    ELSE IF b_slot[order[i]] = "raises"
         THEN [calls |-> Append(calls, <<order[i], order[i] \in new>>), raised |-> "Exception"]
    ELSE Dispatch(order, i + 1, new, Append(calls, <<order[i], order[i] \in new>>))

\* [(button, button in new_state) for button in state_diff]
ChangedButtons(order, new) == [i \in DOMAIN order |-> <<order[i], order[i] \in new>>]

ButtonsInit ==
    /\ b_kind = "none"
    /\ b_slot = [b \in Sources |-> "absent"]
    /\ b_on_change = "fn"
    /\ _state = [type |-> "set", elems |-> {}]
    /\ b_new = {}
    /\ b_calls = <<>>
    /\ b_agg = <<>>
    /\ b_raised = "none"
    /\ b_tick = 0
    /\ b_last = [b \in Sources |-> <<>>]

\* the manager is constructed
NewManager(kind) ==
    /\ b_kind = "none"
    /\ b_kind' = kind
    /\ b_slot' = [b \in Sources |-> DefaultSlot(kind)]
    /\ UNCHANGED <<b_on_change, _state, b_new, b_calls, b_agg, b_raised, b_tick, b_last>>
    /\ UNCHANGED notButtons

\* the application assigns mgr.on_<button> = h
AttachHandler(b, h) ==
    /\ b_kind # "none"
    /\ b_slot' = [b_slot EXCEPT ![b] = h]
    /\ UNCHANGED <<b_kind, b_on_change, _state, b_new, b_calls, b_agg, b_raised, b_tick,
                   b_last>>
    /\ UNCHANGED notButtons

\* the application assigns mgr.on_change = h
AttachOnChange(h) ==
    /\ b_kind # "none"
    /\ b_on_change' = h
    /\ UNCHANGED <<b_kind, b_slot, _state, b_new, b_calls, b_agg, b_raised, b_tick, b_last>>
    /\ UNCHANGED notButtons

\* mutant of NewState: the set read is stored once the handlers have returned
NewState_AfterHandlers(old_state, new_state, raised) ==
    IF raised = "none" THEN new_state ELSE old_state

\* self._state = new_state, made before the difference is computed and the
\* handlers are called: whatever is raised later, the set read is stored
NewState(old_state, new_state, raised) == new_state

\* process() on a manager whose buttons_pressed is a list: _state is assigned,
\* then list.symmetric_difference raises AttributeError
ProcessList(pressed) ==
    /\ _state' = NewState(_state, ButtonsPressed(b_kind, pressed), "AttributeError")
    /\ b_calls' = <<>>
    /\ b_agg' = <<>>
    /\ b_raised' = "AttributeError"

\* mutant of OnChangeCalls: on_change is called ahead of the loop over the
\* changed sources
OnChangeCalls_First(raised, order, pressed) ==
    IF order # <<>> /\ b_on_change # "None"
    THEN <<ChangedButtons(order, pressed)>>
    ELSE <<>>

\* if state_diff and self.on_change: self.on_change([...]), reached once the
\* loop over the changed sources has ended without raising
OnChangeCalls(raised, order, pressed) ==
    IF raised = "none" /\ order # <<>> /\ b_on_change # "None"
    THEN <<ChangedButtons(order, pressed)>>
    ELSE <<>>

\* process() on a manager whose buttons_pressed is a set
ProcessSet(pressed, order) ==
    LET d == Dispatch(order, 1, pressed, <<>>) IN
    /\ _state' = NewState(_state, ButtonsPressed(b_kind, pressed), d.raised)
    /\ b_calls' = d.calls
    /\ b_raised' = d.raised
    /\ b_agg' = OnChangeCalls(d.raised, order, pressed)

\* the body of process(): pressed is what buttons_pressed reads, order the
\* iteration order of the difference
ProcessBody(pressed, order) ==
    /\ b_kind # "none"
    /\ b_new' = pressed
    /\ b_tick' = 1 - b_tick
    /\ IF ButtonsPressed(b_kind, pressed).type = "list"
          THEN order = <<>> /\ ProcessList(pressed)
          ELSE /\ order \in Orders(SymmetricDifference(pressed, _state.elems))
               /\ ProcessSet(pressed, order)
    /\ UNCHANGED <<b_kind, b_slot, b_on_change>>
    /\ UNCHANGED notButtons

\* process()
Process(pressed, order) ==
    /\ ProcessBody(pressed, order)
    /\ b_last' = b_last

\* process(), with the history of the values passed to each source's handler
\* kept in b_last
ProcessTracked(pressed, order) ==
    /\ ProcessBody(pressed, order)
    /\ b_last' = [b \in Sources |->
                     IF \E i \in DOMAIN b_calls' : b_calls'[i][1] = b
                     THEN <<b \in pressed>> ELSE b_last[b]]

ButtonsNext ==
    \/ \E kind \in ManagerKinds : NewManager(kind)
    \/ \E b \in Sources, h \in {"fn", "None"} : AttachHandler(b, h)
    \/ \E h \in {"fn", "None"} : AttachOnChange(h)
    \/ \E pressed \in SUBSET Sources :
          \E order \in {<<>>} \cup UNION {Orders(d) : d \in SUBSET Sources} :
             Process(pressed, order)

(***************************************************************************)
(* ButtonManagerEVIO: the EVIOCGKEY buffers                                *)
(***************************************************************************)
KEY_MAX == 767
KEY_BUF_LEN == (KEY_MAX + 7) \div 8

\* ButtonDefinition = namedtuple('ButtonDefinition', 'input_path mask')
ButtonDefinition(input_path, mask) == [input_path |-> input_path, mask |-> mask]

\* the _buttons of Buttons (ev3/platform.py): six keys of one input file
EV3Buttons ==
    [b \in {"up", "down", "left", "right", "enter", "back"} |->
        ButtonDefinition("gpio-keys.0",
                         CASE b = "up" -> 103 [] b = "down" -> 108 [] b = "left" -> 105
                           [] b = "right" -> 106 [] b = "enter" -> 28 [] b = "back" -> 14)]

\* the _buttons of a manager adapted to a platform whose keys are on two input files
TwoFileButtons ==
    [b \in {"a", "b", "c"} |->
        CASE b = "a" -> ButtonDefinition("gpio-keys.0", 14)
          [] b = "b" -> ButtonDefinition("gpio-keys.1", 14)
          [] b = "c" -> ButtonDefinition("gpio-keys.1", 108)]

ButtonSets == {EV3Buttons, TwoFileButtons}

InputPaths == {"gpio-keys.0", "gpio-keys.1"}

\* the key codes the kernel reports in the model: those of the EV3 buttons
KeyCodes == {14, 28, 103, 105, 106, 108}

\* the input files of the manager's buttons
PathsOf(buttons) == {buttons[b].input_path : b \in DOMAIN buttons}

RECURSIVE Pow2(_)
Pow2(n) == IF n = 0 THEN 1 ELSE 2 * Pow2(n - 1)

\* the byte whose set bits are those of the keys of one byte of the buffer
RECURSIVE ByteOf(_)
ByteOf(down) ==
    IF down = {} THEN 0
    ELSE LET k == CHOOSE x \in down : TRUE IN Pow2(k % 8) + ByteOf(down \ {k})

\* fcntl.ioctl(file, EVIOCGKEY, buffer): the buffer the kernel fills, bit (k % 8)
\* of byte (k / 8) being key k
Ioctl(down) == [i \in 0..(KEY_BUF_LEN - 1) |-> ByteOf({k \in down : k \div 8 = i})]

\* bool(buf[int(bit / 8)] & 1 << bit % 8)
BitSet(buf, bit) == (buf[bit \div 8] \div Pow2(bit % 8)) % 2 = 1

\* mutant of Pressed: a set bit is taken for a pressed button
Pressed_WhenSet(buffers, buttons) ==
    {b \in DOMAIN buttons : BitSet(buffers[buttons[b].input_path], buttons[b].mask)}

\* the loop of buttons_pressed over _buttons: the buttons whose bit is not set
Pressed(buffers, buttons) ==
    {b \in DOMAIN buttons : ~BitSet(buffers[buttons[b].input_path], buttons[b].mask)}

\* the sets of at most n elements of S
RECURSIVE UpTo(_, _)
UpTo(S, n) ==
    IF n = 0 THEN {{}}
    ELSE LET smaller == UpTo(S, n - 1) IN smaller \cup {s \cup {x} : s \in smaller, x \in S}

\* ButtonManagerEVIO._buttons
_buttons == e_buttons[1]

EVIOInit ==
    /\ e_buttons = <<>>
    /\ _buffer_cache = <<>>
    /\ e_ioctls = <<>>
    /\ e_read = [p \in InputPaths |-> {}]
    /\ e_pressed = <<>>

\* ButtonManagerEVIO.__init__: a zeroed buffer for each input path of _buttons
NewEVIO(buttons) ==
    /\ e_buttons = <<>>
    /\ e_buttons' = <<buttons>>
    /\ _buffer_cache' = [p \in PathsOf(buttons) |-> [i \in 0..(KEY_BUF_LEN - 1) |-> 0]]
    /\ UNCHANGED <<e_ioctls, e_read, e_pressed>>
    /\ UNCHANGED notEVIO

\* the key bits the kernel can hold set in the input files
KeyStates ==
    {[p \in InputPaths |-> {pc[2] : pc \in {q \in s : q[1] = p}}] :
        s \in UpTo(InputPaths \X KeyCodes, MaxKeysDown)}

\* buttons_pressed, keys being the key bits the kernel holds set: one ioctl for
\* each key of _buffer_cache, in the order of the dictionary, then the test of
\* each button's bit
EvioButtonsPressed(keys) ==
    /\ e_buttons # <<>>
    /\ _buffer_cache' = [p \in DOMAIN _buffer_cache |-> Ioctl(keys[p])]
    /\ e_ioctls' \in Orders(DOMAIN _buffer_cache)
    /\ e_read' = keys
    /\ e_pressed' = <<Pressed(_buffer_cache', _buttons)>>
    /\ UNCHANGED e_buttons
    /\ UNCHANGED notEVIO

EVIONext ==
    \/ \E buttons \in ButtonSets : NewEVIO(buttons)
    \/ \E keys \in KeyStates : EvioButtonsPressed(keys)

(***************************************************************************)
(* Device: strings, the conversions of attribute values, name matching     *)
(***************************************************************************)
\* a string is a sequence of one-character strings
DigitChars == <<"0", "1", "2", "3", "4", "5", "6", "7", "8", "9">>

IsDigit(c) == \E i \in DOMAIN DigitChars : DigitChars[i] = c

DigitVal(c) == (CHOOSE i \in DOMAIN DigitChars : DigitChars[i] = c) - 1

\* a non-empty run of decimal digits
AllDigits(s) == s # <<>> /\ \A i \in DOMAIN s : IsDigit(s[i])

\* the number a run of decimal digits denotes
RECURSIVE DigitsToNat(_)
DigitsToNat(s) ==
    IF s = <<>> THEN 0
    ELSE 10 * DigitsToNat(SubSeq(s, 1, Len(s) - 1)) + DigitVal(s[Len(s)])

IsSpace(c) == c \in {" ", "\n"}

\* str.strip()
RECURSIVE Strip(_)
Strip(s) ==
    IF s # <<>> /\ IsSpace(Head(s)) THEN Strip(Tail(s))
    ELSE IF s # <<>> /\ IsSpace(s[Len(s)]) THEN Strip(SubSeq(s, 1, Len(s) - 1))
    ELSE s

\* str.split(): the whitespace-separated tokens, in order
RECURSIVE Split(_, _)
Split(s, tok) ==
    IF s = <<>> THEN (IF tok = <<>> THEN <<>> ELSE <<tok>>)
    ELSE IF IsSpace(Head(s))
         THEN (IF tok = <<>> THEN <<>> ELSE <<tok>>) \o Split(Tail(s), <<>>)
         ELSE Split(Tail(s), Append(tok, Head(s)))

\* int(s) of a string: <<n>>, or <<>> where int() raises ValueError
PyInt(s) ==
    LET t == Strip(s)
    IN  IF AllDigits(t) THEN <<DigitsToNat(t)>>
        ELSE IF t # <<>> /\ Head(t) = "-" /\ AllDigits(Tail(t)) THEN <<0 - DigitsToNat(Tail(t))>>
        ELSE IF t # <<>> /\ Head(t) = "+" /\ AllDigits(Tail(t)) THEN <<DigitsToNat(Tail(t))>>
        ELSE <<>>

RECURSIVE NatToStr(_)
NatToStr(n) ==
    IF n < 10 THEN <<DigitChars[n + 1]>>
    ELSE NatToStr(n \div 10) \o <<DigitChars[(n % 10) + 1]>>

\* str(n) of an integer
PyStr(n) == IF n < 0 THEN <<"-">> \o NatToStr(0 - n) ELSE NatToStr(n)

\* fnmatch.fnmatch(name, pat) for patterns made of characters, '*' and '?'
RECURSIVE Fnmatch(_, _)
Fnmatch(name, pat) ==
    IF pat = <<>> THEN name = <<>>
    ELSE IF Head(pat) = "*"
         THEN Fnmatch(name, Tail(pat)) \/ (name # <<>> /\ Fnmatch(Tail(name), pat))
         ELSE /\ name # <<>>
              /\ Head(pat) \in {"?", Head(name)}
              /\ Fnmatch(Tail(name), Tail(pat))

\* value.find(pat) >= 0
Find(value, pat) ==
    \E i \in 0..(Len(value) - Len(pat)) : SubSeq(value, i + 1, i + Len(pat)) = pat

\* _DEVICE_INDEX = '^.*(?P<idx>\d+)$': the lengths the greedy '.*' can take,
\* the rest of the name being one digit or more up to its end
IdxPrefixes(name) ==
    {k \in 0..(Len(name) - 1) : AllDigits(SubSeq(name, k + 1, Len(name)))}

SetMax(S) == CHOOSE x \in S : \A y \in S : y <= x

\* int(match.group('idx')), or None (<<>>) when the name does not match: '.*' is
\* greedy, it takes the longest prefix that leaves a match for '\d+$'
DeviceIndex(name) ==
    IF IdxPrefixes(name) = {} THEN <<>>
    ELSE <<DigitsToNat(SubSeq(name, SetMax(IdxPrefixes(name)) + 1, Len(name)))>>

(***************************************************************************)
(* Device: the class directory and the constructor                         *)
(***************************************************************************)
\* an attribute file that does not exist, and one that holds a text
NoFile == <<>>

File(text) == <<text>>

\* the attributes a criterion of the model names, and all those of an entry
CritAttrs == {"port_name", "driver_name"}

Keys == CritAttrs \cup {"speed_sp", "command", "set_device"}

\* names of the entries of the class directory: motor0, motor12, and one
\* without an index
Names == {<<"m", "0">>, <<"m", "1", "2">>, <<"s">>}

Entries ==
    [name : Names,
     port_name : {NoFile, File(<<"o", "A">>), File(<<"o", "B">>)},
     driver_name : {File(<<"u", "s">>), File(<<"i", "r">>)}]

\* the entries plugged while attributes are exercised
StdEntries ==
    {[name |-> <<"m", "0">>, port_name |-> File(<<"o", "A">>), driver_name |-> File(<<"u", "s">>)],
     [name |-> <<"s">>, port_name |-> NoFile, driver_name |-> File(<<"i", "r">>)]}

\* a criterion: one accepted value, or a list of them
Str(p) == [list |-> FALSE, pats |-> <<p>>]

Lst(ps) == [list |-> TRUE, pats |-> ps]

Patterns(k) ==
    IF k = "port_name"
    THEN {Str(<<"A">>), Lst(<<<<"A">>, <<"B">>>>), Str(<<>>)}
    ELSE {Str(<<"u", "s">>)}

\* the **kwargs of the constructor
KwargsSet ==
    {kw \in UNION {[K -> UNION {Patterns(k) : k \in K}] : K \in SUBSET CritAttrs} :
        \A k \in DOMAIN kw : kw[k] \in Patterns(k)}

\* the default of the name argument
SYSTEM_DEVICE_NAME_CONVENTION == <<"*">>

NamePatterns == {SYSTEM_DEVICE_NAME_CONVENTION, <<"m", "*">>, <<"m", "?">>}

\* what the kernel shows for an attribute: its text and a newline
Show(text) == text \o <<"\n">>

\* _matches(attribute, pattern) on an entry that has the attribute file
Matches(entry, attribute, pattern) ==
    LET value == Strip(Show(entry[attribute][1]))
    IN  IF pattern.list
        THEN \E i \in DOMAIN pattern.pats : Find(value, pattern.pats[i])
        ELSE Find(value, pattern.pats[1])

\* the for loop of __init__ from entry i on: it ends on the first entry that
\* matches the name and every criterion, on the ValueError that the read of a
\* missing attribute file raises, or with the listing exhausted
RECURSIVE Scan(_, _, _, _)
Scan(listing, i, name, kwargs) ==
    IF i > Len(listing) THEN [end |-> "exhausted", at |-> 0]
    ELSE IF ~Fnmatch(listing[i].name, name) THEN Scan(listing, i + 1, name, kwargs)
    ELSE IF \E k \in DOMAIN kwargs : listing[i][k] = NoFile
         THEN [end |-> "ValueError", at |-> i]
    ELSE IF \A k \in DOMAIN kwargs : Matches(listing[i], k, kwargs[k])
         THEN [end |-> "match", at |-> i]
    ELSE Scan(listing, i + 1, name, kwargs)

\* an entry of _cache: no handle, or the file object open() returned
NoHandle == [serial |-> 0, mode |-> [m |-> "none", b |-> FALSE]]

Handle(n, mode) == [serial |-> n, mode |-> mode]

\* the permission bits of the attribute files
Readable(key) == key \notin {"command", "set_device"}

Writable(key) == key \in {"speed_sp", "command", "set_device"}

\* mutant of OpenMode: the binary flag is not appended
OpenMode_NoBinary(key, binary) ==
    [m |-> IF Readable(key) /\ Writable(key) THEN "a+"
           ELSE IF Writable(key) THEN "a"
           ELSE "r",
     b |-> FALSE]

\* _open_file(): the mode the file is opened with
OpenMode(key, binary) ==
    LET mode == IF Readable(key) /\ Writable(key) THEN "a+"
                ELSE IF Writable(key) THEN "a"
                ELSE "r"
    IN  IF binary THEN [m |-> mode, b |-> TRUE] ELSE [m |-> mode, b |-> FALSE]

\* mutant of UnboundCache: the cache of the last candidate is left in place
UnboundCache_Kept == "DeviceFileCache"

\* __init__ with the listing exhausted: self._attribute_cache = None
UnboundCache == "None"

NoRet ==
    [op |-> "none", key |-> "", arg |-> <<>>, exc |-> "none", val |-> <<>>, fs |-> FALSE,
     h |-> NoHandle, absent |-> FALSE, wrote |-> <<>>]

DeviceInit ==
    /\ tree = <<>>
    /\ d_new = [name |-> <<>>, kwargs |-> <<>>, end |-> "none"]
    /\ connected = FALSE
    /\ _path = 0
    /\ _device_index = <<>>
    /\ _attribute_cache = "None"
    /\ _cache = [k \in Keys |-> NoHandle]
    /\ sysfs = [k \in Keys |-> NoFile]
    /\ n_open = [k \in Keys |-> 0]
    /\ d_ret = NoRet
    /\ w_over = FALSE

\* a device is plugged in: the class directory gets one more entry
Plug(e) ==
    /\ d_new.end = "none"
    /\ Len(tree) < MaxEntries
    /\ \A i \in DOMAIN tree : tree[i].name # e.name
    /\ tree' = Append(tree, e)
    /\ UNCHANGED <<d_new, connected, _path, _device_index, _attribute_cache, _cache,
                   sysfs, n_open, d_ret, w_over>>
    /\ UNCHANGED notDevice

\* Device(name, **kwargs)
NewDevice(name, kwargs) ==
    LET r == Scan(tree, 1, name, kwargs)
        bound == r.end = "match"
    IN  /\ d_new.end = "none"
        /\ d_new' = [name |-> name, kwargs |-> kwargs,
                     end |-> IF r.end = "ValueError" THEN "ValueError" ELSE "returned"]
        /\ connected' = bound
        /\ _path' = r.at
        /\ _attribute_cache' = IF r.end = "exhausted" THEN UnboundCache ELSE "DeviceFileCache"
        /\ _cache' = [k \in Keys |-> IF bound /\ k \in DOMAIN kwargs
                                     THEN Handle(1, OpenMode(k, FALSE)) ELSE NoHandle]
        /\ n_open' = [k \in Keys |-> IF bound /\ k \in DOMAIN kwargs THEN 1 ELSE 0]
        /\ _device_index' = IF bound THEN DeviceIndex(tree[r.at].name) ELSE <<>>
        /\ sysfs' = IF bound
                    THEN [k \in Keys |-> IF k \in CritAttrs THEN tree[r.at][k]
                                         ELSE IF k = "speed_sp" THEN File(<<"0">>)
                                         ELSE File(<<>>)]
                    ELSE [k \in Keys |-> NoFile]
        /\ UNCHANGED <<tree, d_ret, w_over>>
        /\ UNCHANGED notDevice

\* the classes of motors.py the model constructs, the class their __init__
\* chain ends in, and the driver_name criterion they add
MotorClasses == {"LargeMotor", "MediumMotor", "DcMotor", "ServoMotor"}

\* the port argument: <<>> for None
Ports == {<<>>, <<"A">>, <<"B">>}

\* the sysfs class of the motor class: SYSTEM_CLASS_NAME
MotorClassName(cls) ==
    CASE cls \in {"LargeMotor", "MediumMotor"} -> "tacho-motor"
      [] cls = "DcMotor" -> "dc-motor"
      [] cls = "ServoMotor" -> "servo-motor"

\* BaseMotor.__init__(port, name, **kwargs): the call of Device.__init__ it makes,
\* self aside, with kwargs['port_name'] = port if a port is given
BaseMotorInit(cls, port, name, kwargs) ==
    [args |-> <<MotorClassName(cls), name>>,
     kwargs |-> IF port # <<>>
                THEN [k \in DOMAIN kwargs \cup {"port_name"} |->
                        IF k = "port_name" THEN Str(port) ELSE kwargs[k]]
                ELSE kwargs]

\* DcMotor.__init__(port, name, **kwargs): the call of Device.__init__ it makes;
\* the port is not used
DcMotorInit(cls, port, name, kwargs) ==
    [args |-> <<MotorClassName(cls), name>>, kwargs |-> kwargs]

\* the call of Device.__init__ the constructor of the class ends in: LargeMotor
\* and MediumMotor add their driver_name and go through RegulatedMotor to
\* DcMotor.__init__, ServoMotor has the __init__ of BaseMotor; the two drivers of
\* the entries stand for those of the large and of the medium motor
MotorInit(cls, port) ==
    CASE cls = "LargeMotor" ->
            DcMotorInit(cls, port, <<"m", "*">>, [driver_name |-> Lst(<<<<"u", "s">>>>)])
      [] cls = "MediumMotor" ->
            DcMotorInit(cls, port, <<"m", "*">>, [driver_name |-> Lst(<<<<"i", "r">>>>)])
      [] cls = "DcMotor" -> DcMotorInit(cls, port, <<"m", "*">>, <<>>)
      [] cls = "ServoMotor" -> BaseMotorInit(cls, port, <<"m", "*">>, <<>>)

\* the positional parameters of Device.__init__ besides self: name
DeviceInitPositionals == 1

\* a motor class is constructed with a port: Device.__init__ is called with the
\* arguments the class passes, and raises TypeError if they are more than its
\* positional parameters; otherwise it binds as Device(name, **kwargs) does
NewMotor(cls, port) ==
    LET call == MotorInit(cls, port)
        fits == Len(call.args) <= DeviceInitPositionals
        r == Scan(tree, 1, call.args[1], call.kwargs)
        bound == fits /\ r.end = "match"
    IN  /\ d_new.end = "none"
        /\ d_new' = [name |-> call.args[Len(call.args)], kwargs |-> call.kwargs,
                     end |-> IF ~fits THEN "TypeError"
                             ELSE IF r.end = "ValueError" THEN "ValueError" ELSE "returned",
                     cls |-> cls, port |-> port]
        /\ connected' = bound
        /\ _path' = IF fits THEN r.at ELSE 0
        /\ _attribute_cache' = IF ~fits \/ r.end = "exhausted" THEN UnboundCache
                                ELSE "DeviceFileCache"
        /\ _cache' = [k \in Keys |-> IF bound /\ k \in DOMAIN call.kwargs
                                     THEN Handle(1, OpenMode(k, FALSE)) ELSE NoHandle]
        /\ n_open' = [k \in Keys |-> IF bound /\ k \in DOMAIN call.kwargs THEN 1 ELSE 0]
        /\ _device_index' = IF bound THEN DeviceIndex(tree[r.at].name) ELSE <<>>
        /\ sysfs' = IF bound
                    THEN [k \in Keys |-> IF k \in CritAttrs THEN tree[r.at][k]
                                         ELSE IF k = "speed_sp" THEN File(<<"0">>)
                                         ELSE File(<<>>)]
                    ELSE [k \in Keys |-> NoFile]
        /\ UNCHANGED <<tree, d_ret, w_over>>
        /\ UNCHANGED notDevice

\* motors are plugged in, and a motor object is constructed
MotorNext ==
    \/ \E e \in Entries : Plug(e)
    \/ \E cls \in MotorClasses, port \in Ports : NewMotor(cls, port)

BindNext ==
    \/ \E e \in Entries : Plug(e)
    \/ \E name \in NamePatterns, kwargs \in KwargsSet : NewDevice(name, kwargs)

(***************************************************************************)
(* Device: the attribute operations and the cache of file handles          *)
(***************************************************************************)
\* integers and strings the application writes
IntValues == {-12, 5}

StrValues == {<<"o", "n">>}

\* mutant of CacheStore: the handle just opened is not kept
CacheStore_Forget(cache, key, f) == cache

\* file_handle(): self._cache[key] = f
CacheStore(cache, key, f) == [cache EXCEPT ![key] = f]

\* file_handle(attribute_name, binary): the handle of the cache if there is one,
\* else _open_file(), which raises ValueError if the path does not exist
FileHandle(key, binary) ==
    IF _cache[key] # NoHandle
    THEN [exc |-> "none", h |-> _cache[key], cache |-> _cache, opened |-> FALSE, fs |-> FALSE]
    ELSE IF sysfs[key] = NoFile
    THEN [exc |-> "ValueError", h |-> NoHandle, cache |-> _cache, opened |-> FALSE, fs |-> TRUE]
    ELSE LET f == Handle(n_open[key] + 1, OpenMode(key, binary))
         IN  [exc |-> "none", h |-> f, cache |-> CacheStore(_cache, key, f),
              opened |-> TRUE, fs |-> TRUE]

\* the outcome of an operation: the exception raised or "none", the value
\* returned, the handle used, whether the filesystem was accessed, and the cache,
\* the kernel values and the opens it leaves
Outcome(exc, val, fh, fs, files) ==
    [exc |-> exc, val |-> val, h |-> fh.h, fs |-> fs, cache |-> fh.cache,
     opened |-> fh.opened, sysfs |-> files, wrote |-> <<>>]

\* self._attribute_cache.<method>(...) on a device whose cache is None
NoCache ==
    [exc |-> "AttributeError", val |-> <<>>, h |-> NoHandle, fs |-> FALSE, cache |-> _cache,
     opened |-> FALSE, sysfs |-> sysfs, wrote |-> <<>>]

\* FileCache.read(): file_handle(), seek(0), read(), strip(); the handle of an
\* attribute the kernel has removed fails with ENODEV
Read(key) ==
    IF _attribute_cache = "None" THEN NoCache
    ELSE LET fh == FileHandle(key, FALSE)
         IN  IF fh.exc # "none" THEN Outcome(fh.exc, <<>>, fh, fh.fs, sysfs)
             ELSE IF fh.h.mode.m = "a" \/ sysfs[key] = NoFile
                  THEN Outcome("IOError", <<>>, fh, TRUE, sysfs)
             ELSE Outcome("none", Strip(Show(sysfs[key][1])), fh, TRUE, sysfs)

\* mutant of Store: the text is laid over the old one as in a plain file, and
\* what the old text had beyond its length stays
Store_Overlay(old, key, value) ==
    <<File(value \o SubSeq(old, Len(value) + 1, Len(old)))>>

\* f.write(value) on an attribute file holding the text old: the write reaches the
\* kernel as a whole, which keeps the number of an integer attribute and nothing
\* of a command, whatever the attribute held; <<>> where it rejects the text
Store(old, key, value) ==
    IF key = "speed_sp"
    THEN (IF PyInt(value) = <<>> THEN <<>> ELSE <<File(PyStr(PyInt(value)[1]))>>)
    ELSE <<File(<<>>)>>

\* FileCache.write(): file_handle(), seek(0), write(value)
Write(key, value) ==
    IF _attribute_cache = "None" THEN NoCache
    ELSE LET fh == FileHandle(key, FALSE)
         IN  IF fh.exc # "none" THEN Outcome(fh.exc, <<>>, fh, fh.fs, sysfs)
             ELSE IF fh.h.mode.m = "r" \/ sysfs[key] = NoFile
                  THEN Outcome("IOError", <<>>, fh, TRUE, sysfs)
             ELSE IF Store(sysfs[key][1], key, value) = <<>>
                  THEN [Outcome("IOError", <<>>, fh, TRUE, sysfs) EXCEPT !.wrote = <<value>>]
             ELSE [Outcome("none", <<>>, fh, TRUE,
                           [sysfs EXCEPT ![key] = Store(sysfs[key][1], key, value)[1]])
                      EXCEPT !.wrote = <<value>>]

\* one call of an attribute operation on the device, with its outcome
AttrOp(op, key, arg, r) ==
    /\ d_new.end = "returned"
    /\ n_open[key] < MaxOpens
    /\ d_ret' = [op |-> op, key |-> key, arg |-> arg, exc |-> r.exc, val |-> r.val,
                 fs |-> r.fs, h |-> r.h, absent |-> (sysfs[key] = NoFile),
                 wrote |-> r.wrote]
    /\ _cache' = r.cache
    /\ sysfs' = r.sysfs
    /\ n_open' = IF r.opened THEN [n_open EXCEPT ![key] = @ + 1] ELSE n_open
    /\ w_over' = (w_over \/ (r.sysfs[key] # NoFile /\ Len(r.sysfs[key][1]) < Len(sysfs[key][1])))
    /\ UNCHANGED <<tree, d_new, connected, _path, _device_index, _attribute_cache>>
    /\ UNCHANGED notDevice

\* get_attr_int(attribute)
GetAttrInt(key) ==
    AttrOp("get_attr_int", key, <<>>,
           LET r == Read(key)
           IN  IF r.exc # "none" THEN r
               ELSE IF PyInt(r.val) = <<>> THEN [r EXCEPT !.exc = "ValueError", !.val = <<>>]
               ELSE [r EXCEPT !.val = PyInt(r.val)])

\* set_attr_int(attribute, value) with an integer value
SetAttrInt(key, value) == AttrOp("set_attr_int", key, <<value>>, Write(key, PyStr(value)))

\* get_attr_string(attribute)
GetAttrString(key) == AttrOp("get_attr_string", key, <<>>, Read(key))

\* set_attr_string(attribute, value)
SetAttrString(key, value) == AttrOp("set_attr_string", key, value, Write(key, value))

\* get_attr_set(attribute)
GetAttrSet(key) ==
    AttrOp("get_attr_set", key, <<>>,
           LET r == Read(key)
           IN  IF r.exc # "none" THEN r ELSE [r EXCEPT !.val = Split(r.val, <<>>)])

\* device.command = value
SetCommand(value) == AttrOp("command", "command", value, Write("command", value))

\* self._attribute_cache.file_handle(attribute, binary) called by a device class
GetFileHandle(key, binary) ==
    AttrOp("file_handle", key, <<binary>>,
           IF _attribute_cache = "None" THEN NoCache
           ELSE LET fh == FileHandle(key, binary)
                IN  Outcome(fh.exc, <<>>, fh, fh.fs, sysfs))

\* the properties whose getter raises: command (Device), set_device (LegoPort)
WriteOnlyProps == {"command", "set_device"}

\* mutant of WriteOnlyGet: the getter reads the attribute as the other getters do
WriteOnlyGet_Reads(key) == Read(key)

\* raise Exception("<property> is a write-only property!")
WriteOnlyGet(key) ==
    [exc |-> "Exception", val |-> <<>>, h |-> NoHandle, fs |-> FALSE, cache |-> _cache,
     opened |-> FALSE, sysfs |-> sysfs, wrote |-> <<>>]

\* value = device.command, value = port.set_device
GetWriteOnly(key) == AttrOp("get", key, <<>>, WriteOnlyGet(key))

\* port.set_device = value
SetDevice(value) == AttrOp("set_device", "set_device", value, Write("set_device", value))

\* values that are not integers: 3.7, -2.5, 4.0, 'ab', '7'
OtherValues ==
    {[t |-> "float", n |-> 37, d |-> 10, s |-> <<>>],
     [t |-> "float", n |-> -5, d |-> 2, s |-> <<>>],
     [t |-> "float", n |-> 4, d |-> 1, s |-> <<>>],
     [t |-> "str", n |-> 0, d |-> 1, s |-> <<"a", "b">>],
     [t |-> "str", n |-> 0, d |-> 1, s |-> <<"7">>]}

\* int(value): <<>> where it raises ValueError
IntOf(value) ==
    IF value.t = "float" THEN <<PyTrunc(Rat(value.n, value.d))>> ELSE PyInt(value.s)

\* set_attr_int(attribute, value) with a value that is not an integer
SetAttrIntOf(key, value) ==
    AttrOp("set_attr_int", key, <<value.t, value.n, value.d, value.s>>,
           IF IntOf(value) = <<>>
           THEN [exc |-> "ValueError", val |-> <<>>, h |-> NoHandle, fs |-> FALSE,
                 cache |-> _cache, opened |-> FALSE, sysfs |-> sysfs, wrote |-> <<>>]
           ELSE Write(key, PyStr(IntOf(value)[1])))

\* the device is unplugged: the kernel removes its attribute files, the handles
\* of the cache stay
Unplug ==
    /\ d_new.end = "returned"
    /\ connected
    /\ \E k \in Keys : sysfs[k] # NoFile
    /\ sysfs' = [k \in Keys |-> NoFile]
    /\ UNCHANGED <<tree, d_new, connected, _path, _device_index, _attribute_cache, _cache,
                   n_open, d_ret, w_over>>
    /\ UNCHANGED notDevice

\* the attributes the application operates on, once the device is constructed
OpKeys == {"port_name", "speed_sp", "command"}

AttrNext ==
    \/ \E e \in StdEntries : Plug(e)
    \/ \E kwargs \in KwargsSet : NewDevice(SYSTEM_DEVICE_NAME_CONVENTION, kwargs)
    \/ \E key \in OpKeys : GetAttrInt(key)
    \/ \E key \in OpKeys, value \in IntValues : SetAttrInt(key, value)
    \/ \E key \in OpKeys : GetAttrString(key)
    \/ \E key \in OpKeys, value \in StrValues : SetAttrString(key, value)
    \/ \E key \in OpKeys : GetAttrSet(key)
    \/ \E value \in StrValues : SetCommand(value)
    \/ \E key \in OpKeys, binary \in BOOLEAN : GetFileHandle(key, binary)

\* the attributes the typed accessors are called on: one that every device
\* has, and one that some devices do not have
AccessKeys == {"speed_sp", "port_name"}

(***************************************************************************)
(* Sensor: bin_data()                                                      *)
(***************************************************************************)
\* _bin_data_sizes, with the default of .get(format, 1) for any other text
BinDataSizes(format) ==
    CASE format \in {"u8", "s8"} -> 1
      [] format \in {"u16", "s16", "s16_be"} -> 2
      [] format \in {"s32", "float"} -> 4
      [] OTHER -> 1

\* the formats and the numbers of values of the sensor modes
Formats == {"u8", "s8", "u16", "s16", "s16_be", "s32", "float"}

NumValues == {1, 3, 8}

\* the directory of the sensor in /sys/class/lego-sensor
DeviceClasspath == <<"/", "s", "0">>

\* the files of the machine that hold binary data: bin_data in the directory of
\* the sensor
BinFiles == {DeviceClasspath \o <<"/", "b", "i", "n", "_", "d", "a", "t", "a">>}

\* os.path.join(a, b): an absolute b discards a
PathJoin(a, b) ==
    IF b # <<>> /\ b[1] = "/" THEN b
    ELSE IF a = <<>> \/ a[Len(a)] = "/" THEN a \o b
    ELSE a \o <<"/">> \o b

NoBinData == [exc |-> "none", path |-> <<>>, nbytes |-> 0, size |-> 0]

SensorInit ==
    /\ sn_format = <<>>
    /\ sn_values = 0
    /\ _bin_data_size = None
    /\ sn_reads = [bin_data_format |-> 0, num_values |-> 0]
    /\ sn_calls = 0
    /\ sn_ret = NoBinData

\* Sensor.__init__ binds a sensor whose mode has the given format and count
NewSensor(format, count) ==
    /\ sn_format = <<>>
    /\ sn_format' = <<format>>
    /\ sn_values' = count
    /\ _bin_data_size' = None
    /\ UNCHANGED <<sn_reads, sn_calls, sn_ret>>
    /\ UNCHANGED notSensor

\* sensor.mode = value: the kernel changes the format and the count with the mode
SetSensorMode(format, count) ==
    /\ sn_format # <<>>
    /\ sn_format' = <<format>>
    /\ sn_values' = count
    /\ UNCHANGED <<_bin_data_size, sn_reads, sn_calls, sn_ret>>
    /\ UNCHANGED notSensor

\* bin_data(): the size is computed if _bin_data_size is None or 0, then
\* file_handle('/bin_data', binary=True) joins the name to the directory of the
\* device, tests the path and opens it, and size bytes are read
BinData ==
    LET compute == _bin_data_size = None \/ _bin_data_size = Some(0)
        size == IF compute THEN BinDataSizes(sn_format[1]) * sn_values ELSE _bin_data_size[1]
        path == PathJoin(DeviceClasspath, <<"/", "b", "i", "n", "_", "d", "a", "t", "a">>)
    IN  /\ sn_format # <<>>
        /\ sn_calls < MaxCalls
        /\ sn_calls' = sn_calls + 1
        /\ _bin_data_size' = Some(size)
        /\ sn_reads' = IF compute
                       THEN [bin_data_format |-> sn_reads.bin_data_format + 1,
                             num_values |-> sn_reads.num_values + 1]
                       ELSE sn_reads
        /\ sn_ret' = IF path \in BinFiles
                     THEN [exc |-> "none", path |-> path, nbytes |-> size, size |-> size]
                     ELSE [exc |-> "ValueError", path |-> path, nbytes |-> 0, size |-> size]
        /\ UNCHANGED <<sn_format, sn_values>>
        /\ UNCHANGED notSensor

SensorNext ==
    \/ \E format \in Formats, count \in NumValues : NewSensor(format, count)
    \/ \E format \in Formats, count \in NumValues : SetSensorMode(format, count)
    \/ BinData

\* the attribute operations with the getters of the write-only properties,
\* values of any type and a device that can be unplugged
AccessNext ==
    \/ \E e \in StdEntries : Plug(e)
    \/ NewDevice(SYSTEM_DEVICE_NAME_CONVENTION, <<>>)
    \/ \E key \in AccessKeys : GetAttrInt(key)
    \/ \E key \in AccessKeys, value \in IntValues : SetAttrInt(key, value)
    \/ \E key \in AccessKeys, value \in OtherValues : SetAttrIntOf(key, value)
    \/ \E key \in AccessKeys : GetAttrString(key)
    \/ \E key \in AccessKeys, value \in StrValues : SetAttrString(key, value)
    \/ \E key \in AccessKeys : GetAttrSet(key)
    \/ \E key \in WriteOnlyProps : GetWriteOnly(key)
    \/ \E value \in StrValues : SetCommand(value)
    \/ \E value \in StrValues : SetDevice(value)
    \/ Unplug

Init == MonitorInit /\ PilotInit /\ ScannerInit /\ ButtonsInit /\ EVIOInit /\ DeviceInit
        /\ SensorInit

SpecMonitor == Init /\ [][MonitorNext]_vars

\* the monitor with motors that may be unplugged while it polls
MonitorGoneNext == MonitorNext \/ PollRaises

SpecMonitorGone == Init /\ [][MonitorGoneNext]_vars

\* the monitor under a fair scheduler: its thread goes on stepping, and a caller
\* inside wait() gets out of it (a join with a finite delay returns)
SpecMonitorLive ==
    Init /\ [][MonitorLiveNext]_vars /\ WF_vars(MonitorThread) /\ WF_vars(WaitReturns)

SpecPilot == Init /\ [][PilotNext]_vars

SpecScanner == Init /\ [][ScannerNext]_vars

SpecButtons == Init /\ [][ButtonsNext]_vars

\* the manager with handlers of the application that may raise
RaisingNext ==
    \/ \E kind \in {"Buttons", "Custom"} : NewManager(kind)
    \/ \E b \in Sources, h \in {"fn", "raises"} : AttachHandler(b, h)
    \/ \E h \in {"fn", "None"} : AttachOnChange(h)
    \/ \E pressed \in SUBSET Sources :
          \E order \in {<<>>} \cup UNION {Orders(d) : d \in SUBSET Sources} :
             Process(pressed, order)

SpecRaising == Init /\ [][RaisingNext]_vars

\* the application sets its handlers up on the fresh manager: no process()
\* call has called a handler or found a button held yet
AttachAtStart(b, h) ==
    /\ _state.elems = {}
    /\ b_raised = "none"
    /\ \A c \in Sources : b_last[c] = <<>>
    /\ AttachHandler(b, h)

\* the manager with the history of the values passed to the handlers
AlternateNext ==
    \/ \E kind \in ManagerKinds : NewManager(kind)
    \/ \E b \in Sources, h \in {"fn", "None"} : AttachAtStart(b, h)
    \/ \E h \in {"fn", "None"} : AttachOnChange(h)
    \/ \E pressed \in SUBSET Sources :
          \E order \in {<<>>} \cup UNION {Orders(d) : d \in SUBSET Sources} :
             ProcessTracked(pressed, order)

SpecAlternate == Init /\ [][AlternateNext]_vars
SpecEVIO == Init /\ [][EVIONext]_vars

SpecBind == Init /\ [][BindNext]_vars

SpecMotor == Init /\ [][MotorNext]_vars
SpecAttr == Init /\ [][AttrNext]_vars
SpecAccess == Init /\ [][AccessNext]_vars
SpecSensor == Init /\ [][SensorNext]_vars

(***************************************************************************)
(* Properties of the MotionMonitor                                         *)
(***************************************************************************)
\* 1 if the callback is set (the code calls it only then), else 0
Calls(cb) == IF cb \in on_cb THEN 1 ELSE 0

MonitorTerminalInv ==
    /\ exit_by \in {"Running", "Completed", "Stalled", "Cancelled"}
    /\ (exit_by = "Running") = (m_pc # "done")
    /\ n_complete + n_stalled <= 1
    /\ n_complete = 1 => exit_by = "Completed"
    /\ n_stalled = 1 => exit_by = "Stalled"

C2_AllHoldingCompletes ==
    /\ [](exit_by = "Completed" =>
            /\ n_complete = Calls("on_complete")
            /\ n_stalled = 0
            /\ _stalled = FALSE)
    /\ [][(m_pc = "eval" /\ m_pc' # m_pc /\ \A i \in Motors : "holding" \in s_p[i].state) =>
            /\ m_pc' = "done"
            /\ exit_by' = "Completed"
            /\ n_complete' = n_complete + Calls("on_complete")
            /\ n_stalled' = n_stalled
            /\ _stalled' = FALSE]_vars

\* completion on a later poll whose positions equal those of the poll before
C2_Witness ==
    /\ exit_by = "Completed"
    /\ n_polls >= 2
    /\ "on_complete" \in on_cb /\ n_complete = 1
    /\ prev_positions = [i \in Motors |-> s_p[i].position]

\* C3: a poll ends the monitor in Stalled (stalled true, on_stalled called once,
\* on_complete not) exactly when it is not the first poll, not all actuators hold,
\* and an actuator that does not hold reports the position of its previous poll.
C3_StalledIff ==
    /\ []((exit_by = "Stalled") = _stalled)
    /\ [](exit_by = "Stalled" => n_polls >= 2 /\ n_stalled = Calls("on_stalled") /\ n_complete = 0)
    /\ [][(m_pc = "eval" /\ m_pc' # m_pc) =>
            /\ (exit_by' = "Stalled") =
                 (/\ n_polls > 1
                  /\ \E i \in Motors : "holding" \notin s_p[i].state
                  /\ \E i \in Motors : /\ "holding" \notin s_p[i].state
                                       /\ s_p[i].position = prev_positions[i])
            /\ exit_by' = "Stalled" =>
                 /\ _stalled'
                 /\ n_stalled' = n_stalled + Calls("on_stalled")
                 /\ n_complete' = n_complete]_vars

\* a stall declared while the other actuator holds
C3_Witness ==
    /\ exit_by = "Stalled"
    /\ "on_stalled" \in on_cb /\ n_stalled = 1
    /\ \E i \in Motors : "holding" \in s_p[i].state

\* C4: once a wait() that found the monitor alive at its timeout has set
\* _stopped and returned, neither on_complete nor on_stalled is invoked.
C4_NoCallbackAfterWaitCancel ==
    [][wait_cancelled => (n_complete' = n_complete /\ n_stalled' = n_stalled)]_vars

\* C37: a wait() with a finite delay entered while the monitor runs leads to
\* the end of the monitor's thread (is_alive false), whatever the motors report,
\* under a fair scheduler.
C37_FiniteWaitEndsMonitor ==
    (c_pc = "wait_join" /\ c_delay = "finite" /\ IsAlive) ~> ~IsAlive

\* the monitor polled to the bound without completing or stalling and was ended
\* by the wait() whose delay expired
C37_Witness ==
    /\ wait_cancelled /\ c_delay = "finite"
    /\ exit_by = "Cancelled" /\ m_pc = "done"
    /\ n_polls = MaxPolls
    /\ n_complete = 0 /\ n_stalled = 0

\* the caller is back from stop(): _stopped was set by stop(), not by wait()
StopReturned == c_pc = "idle" /\ _stopped /\ ~wait_cancelled

\* C38: stop() returns only once the monitor's thread has ended, and a thread
\* that has ended stays ended and invokes neither on_complete nor on_stalled.
C38_StopReturnsAfterTheEnd ==
    /\ [][(c_pc = "stop_join" /\ c_pc' = "idle") => m_pc' = "done"]_vars
    /\ [](StopReturned => ~IsAlive)
    /\ [][m_pc = "done" =>
            (m_pc' = "done" /\ n_complete' = n_complete /\ n_stalled' = n_stalled)]_vars

\* stop() has returned from a monitor it interrupted between two polls
C38_Witness ==
    /\ StopReturned
    /\ exit_by = "Cancelled"
    /\ n_polls >= 1
    /\ on_cb = Callbacks

\* C5: with an on_start callback, on_start is called once, on the monitor's
\* thread, before the first poll of the actuators.
C5_OnStartBeforeFirstPoll ==
    "on_start" \in on_cb =>
        /\ n_start <= 1
        /\ m_pc = "run" => (n_start = 0 /\ n_polls = 0)
        /\ (n_polls >= 1 \/ m_pc \in {"loop", "poll", "eval", "done"}) => n_start = 1

\* the first poll has just been made and on_start has fired
C5_Witness ==
    /\ "on_start" \in on_cb
    /\ m_pc = "eval"
    /\ n_polls = 1
    /\ n_start = 1

(***************************************************************************)
(* Properties of the pilot's commands                                      *)
(***************************************************************************)
\* C6: in a multi-actuator command every setpoint write of both actuators comes
\* before the first write of the run command, and a command that has written its
\* setpoints and ended has written the run command to every actuator.
C6_SetpointsThenRunOnAll ==
    /\ \A i, j \in DOMAIN p_log :
          (IsCommand(p_log[i]) /\ ~IsCommand(p_log[j])) => j < i
    /\ (p_result \notin {"idle", "running"} /\ p_log # <<>>) =>
          \A m \in Motors : \E i \in DOMAIN p_log :
              IsCommand(p_log[i]) /\ p_log[i].motor = m

\* the command called runs drive(): drive, forward, backward, steer(0)
ThroughDrive ==
    \/ p_call.name \in {"drive", "forward", "backward"}
    \/ p_call.name = "steer" /\ p_call.arg = 0

Ended == p_result \notin {"idle", "running"}

\* C19: a command that runs drive() returns having set the speed setpoint of
\* both actuators to the pulses per second of the linear speed and then issued
\* the run-forever command to both.
C19_DriveRunsBothForever ==
    (ThroughDrive /\ Ended) =>
        /\ p_result = "returned"
        /\ \A m \in Motors :
              \E i, j \in DOMAIN p_log :
                  /\ i < j
                  /\ p_log[i].attr = "speed_sp" /\ p_log[i].motor = m
                  /\ p_log[j].attr = "command" /\ p_log[j].motor = m
                  /\ p_log[j].val = "run-forever"

\* C20: travel(distance = 0) writes no setpoint and no command to any
\* actuator, and what it returns is the null monitor, not a started
\* MotionMonitor thread.
C20_TravelZeroIsNull ==
    (p_call.name = "travel" /\ p_call.arg = 0) =>
        /\ p_log = <<>>
        /\ Ended => p_result = "null_monitor"

\* the values the command has written to one attribute of motor m
Written(m, attr) ==
    {p_log[i].val : i \in {j \in DOMAIN p_log : p_log[j].motor = m /\ p_log[j].attr = attr}}

\* p is the integer nearest to the fraction x
IsNearest(p, x) == 2 * Abs(p * x.d - x.n) <= x.d

\* the only value written to the attribute of motor m is the integer nearest to x
WroteNearest(m, attr, x) ==
    \E p \in Written(m, attr) : Written(m, attr) = {p} /\ IsNearest(p, x)

\* the speed the command runs at: the argument, or the default of the pilot
LinearSpeed == RInt(Or(p_call.speed, _travel_speed))

\* C21: travel(distance, speed) writes round(distance / distance_per_pulse) to
\* the position setpoint and round(speed / distance_per_pulse) to the speed
\* setpoint of both actuators, the run-to-rel-pos command to both, and returns a
\* started monitor; travel(200) writes 531 to both position setpoints.
C21_TravelSetpoints ==
    (p_call.name = "travel" /\ Ended) =>
        /\ p_result = "monitor"
        /\ \A m \in Motors :
              /\ WroteNearest(m, "position_sp", RDiv(RInt(p_call.arg), _dist_per_pulse))
              /\ WroteNearest(m, "speed_sp", RDiv(LinearSpeed, _dist_per_pulse))
              /\ Written(m, "command") = {"run-to-rel-pos"}
              /\ p_call.arg = 200 => Written(m, "position_sp") = {531}

\* travel(200, 100) has returned its monitor
C21_Witness ==
    /\ p_call.name = "travel" /\ p_call.arg = 200 /\ p_call.speed = Some(100)
    /\ p_result = "monitor"
    /\ Written(1, "position_sp") = {531}

\* C22: rotate(angle) writes -p to the position setpoint of the left actuator
\* and +p to that of the right one, p = round(angle / rotation_per_pulse), and
\* one same speed setpoint to both.
C22_RotateOppositeSetpoints ==
    (p_call.name = "rotate" /\ Ended) =>
        /\ WroteNearest(2, "position_sp", RDiv(RInt(p_call.angle), _rotation_per_pulse))
        /\ \E p \in Written(2, "position_sp") : Written(1, "position_sp") = {0 - p}
        /\ \E s \in Written(1, "speed_sp") :
              Written(1, "speed_sp") = {s} /\ Written(2, "speed_sp") = {s}

\* rotate(90) has ended, with -292 and 292 as position setpoints
C22_Witness ==
    /\ p_call.name = "rotate" /\ p_call.angle = 90
    /\ Ended
    /\ Written(1, "position_sp") = {-292}
    /\ Written(2, "position_sp") = {292}

\* C23: arc(radius = 0, angle) makes the writes of rotate(angle), the same
\* attributes with the same values in the same order, and ends as it does.
C23_ArcZeroIsRotate ==
    (p_call.name = "arc" /\ p_call.arg = 0) =>
        /\ p_log \o p_prog = RotateProg(p_call.angle, None).writes
        /\ p_end = RotateProg(p_call.angle, None).end

\* arc(0, 90) has ended, its eight writes made
C23_Witness ==
    /\ p_call.name = "arc" /\ p_call.arg = 0 /\ p_call.angle = 90
    /\ Ended
    /\ Len(p_log) = 8

\* the speed of the actuator inside the turn: speed * (100 - |turn_rate|) / 100
InnerSpeed ==
    RMul(RInt(p_call.speed[1]), Rat(100 - Abs(Clip(p_call.arg)), 100))

\* C24: steer(turn_rate, speed) with a speed given clamps turn_rate to
\* [-200, 200]; at 200 it spins in place (opposite speed setpoints of the same
\* magnitude); otherwise the actuator inside the turn (the left one for
\* turn_rate > 0) gets the pulses per second of speed * (100 - |turn_rate|) / 100
\* and the outside one those of speed; run-forever is then issued to both.
C24_SteerSpeeds ==
    (p_call.name = "steer" /\ p_call.arg # 0 /\ p_call.speed # None /\ Ended) =>
        /\ \A m \in Motors : Written(m, "command") = {"run-forever"}
        /\ IF Abs(Clip(p_call.arg)) = TurnRateLimit
           THEN \E s \in Written(2, "speed_sp") :
                    Written(2, "speed_sp") = {s} /\ Written(1, "speed_sp") = {0 - s}
           ELSE LET inner == IF Clip(p_call.arg) > 0 THEN 1 ELSE 2
                IN  /\ WroteNearest(inner, "speed_sp", RDiv(InnerSpeed, _dist_per_pulse))
                    /\ WroteNearest(3 - inner, "speed_sp",
                                    RDiv(RInt(p_call.speed[1]), _dist_per_pulse))

\* the length the wheel of motor m travels in the arc called
ArcLength(m) ==
    RMul(RAdd(RInt(p_call.arg), RMul(RInt(IF m = 1 THEN -1 ELSE 1), Rat(_track_width, 2))),
         Radians(RInt(p_call.angle)))

\* C25: every position setpoint written by travel, rotate and arc is the
\* integer nearest to the physical quantity divided by the quantity per pulse.
C25_PositionsAreRounded ==
    \A m \in Motors : Written(m, "position_sp") # {} =>
        CASE p_call.name = "travel" ->
                WroteNearest(m, "position_sp", RDiv(RInt(p_call.arg), _dist_per_pulse))
          [] p_call.name = "rotate" \/ (p_call.name = "arc" /\ p_call.arg = 0) ->
                WroteNearest(m, "position_sp",
                             RDiv(RInt(IF m = 1 THEN 0 - p_call.angle ELSE p_call.angle),
                                  _rotation_per_pulse))
          [] p_call.name = "arc" /\ p_call.arg # 0 ->
                WroteNearest(m, "position_sp", RDiv(ArcLength(m), _dist_per_pulse))
          [] OTHER -> FALSE

\* C26: buttons_pressed of the bitmask manager makes one bulk read for each
\* distinct backing file of its sources and returns exactly the names of the
\* sources whose bit (byte mask / 8, bit mask % 8) the kernel held clear.
C26_PressedAreTheClearBits ==
    e_pressed # <<>> =>
        /\ Len(e_ioctls) = Cardinality(PathsOf(_buttons))
        /\ {e_ioctls[i] : i \in DOMAIN e_ioctls} = PathsOf(_buttons)
        /\ e_pressed[1] =
              {b \in DOMAIN _buttons : _buttons[b].mask \notin e_read[_buttons[b].input_path]}

\* the two-file manager has read both files: key 14 set in the first file only,
\* so that "a" is released and "b" and "c" are pressed
C26_Witness ==
    /\ e_buttons = <<TwoFileButtons>>
    /\ e_read = [p \in InputPaths |-> IF p = "gpio-keys.0" THEN {14} ELSE {}]
    /\ Len(e_ioctls) = 2
    /\ e_pressed = <<{"b", "c"}>>

(***************************************************************************)
(* Properties of the scanner                                               *)
(***************************************************************************)
\* the step is a call of process() by scanner thread t
CallsProcess(t) == t_pc[t] = "call" /\ t_pc'[t] = "in_process"

\* C7: once stop_scanner() has returned True, and until a later start_scanner()
\* creates a new task, no scanner task calls process().
C7_NoProcessAfterStop ==
    [][(a_pc = "idle" /\ a_ret = [op |-> "stop", val |-> TRUE]) =>
          \A t \in Scanners : ~CallsProcess(t)]_vars

\* the step is a start_scanner() call that returns val
StartReturns(val) ==
    a_pc = "idle" /\ a_pc' = "idle" /\ a_ret' = [op |-> "start", val |-> val]
        /\ (val => _scanner' # _scanner)
        /\ (~val => (a_ret # a_ret' /\ UNCHANGED <<_scanner, t_pc>>))

\* the step is a stop_scanner() call that finds no scanner and returns False
StopReturnsFalse ==
    a_pc = "idle" /\ a_pc' = "idle" /\ a_ret' = [op |-> "stop", val |-> FALSE] /\ a_ret' # a_ret

\* the step is a stop_scanner() call that finds a scanner and goes on to stop it
StopProceeds == a_pc = "idle" /\ a_pc' = "join"

\* C8: start_scanner() returns False, creating no task, exactly when a scanner
\* task is running, and otherwise creates one task and returns True;
\* stop_scanner() returns False, doing nothing, exactly when none is running.
C8_StartStopIffRunning ==
    [][/\ StartReturns(FALSE) => \E t \in Scanners : ScannerAlive(t)
       /\ StartReturns(TRUE) =>
            /\ \A t \in Scanners : ~ScannerAlive(t)
            /\ Cardinality({t \in Scanners : t_pc[t] = "unborn" /\ t_pc'[t] # "unborn"}) = 1
       /\ StopReturnsFalse => \A t \in Scanners : ~ScannerAlive(t)
       /\ StopProceeds => \E t \in Scanners : ScannerAlive(t)]_vars

(***************************************************************************)
(* Properties of process()                                                 *)
(***************************************************************************)
\* the step is a process() call
ProcessCalled == b_tick' # b_tick

\* the sources that changed between the stored state and the set just read
Changed == SymmetricDifference(b_new', _state.elems)

\* the (source, now_pressed) pairs of the changed sources in the set s
ChangePairs(s) == {<<b, b \in b_new'>> : b \in s}

\* the elements of a sequence
Range(f) == {f[i] : i \in DOMAIN f}

\* C9: a process() call invokes the handler of each changed source that has one,
\* once, with true iff the source is now pressed, and invokes on_change (when
\* set) once with the pairs of all the changed sources iff some source changed.
C9_DispatchIsTheDifference ==
    [][ProcessCalled =>
          /\ Range(b_calls') = ChangePairs({b \in Changed : b_slot[b] = "fn"})
          /\ Len(b_calls') = Cardinality({b \in Changed : b_slot[b] = "fn"})
          /\ Len(b_agg') = IF Changed # {} /\ b_on_change = "fn" THEN 1 ELSE 0
          /\ \A k \in DOMAIN b_agg' :
                /\ Range(b_agg'[k]) = ChangePairs(Changed)
                /\ Len(b_agg'[k]) = Cardinality(Changed)]_vars

\* C10: when a changed source has no handler attached (the attribute is absent
\* or None), process() raises nothing, still calls the handlers of the other
\* changed sources and on_change, and stores the set just read.
C10_MissingHandlerIsNoOp ==
    [][(ProcessCalled /\ \E b \in Changed : b_slot[b] # "fn") =>
          /\ b_raised' = "none"
          /\ Range(b_calls') = ChangePairs({b \in Changed : b_slot[b] = "fn"})
          /\ Len(b_agg') = IF b_on_change = "fn" THEN 1 ELSE 0
          /\ _state'.elems = b_new']_vars

\* C34: over the process() calls of a manager whose handlers were set up
\* while it was fresh, the values passed to the handler of a source alternate,
\* starting with true: the first is true, and each differs from the one passed
\* before.
C34_HandlerValuesAlternate ==
    [][(ProcessCalled /\ b_kind = "Buttons") =>
          \A i \in DOMAIN b_calls' :
             LET b == b_calls'[i][1]
                 v == b_calls'[i][2]
             IN  IF b_last[b] = <<>> THEN v ELSE v # b_last[b][1]]_vars

\* C35: within one process() call every per-source handler the call invokes is
\* invoked before on_change: on_change is called only once the loop over the
\* changed sources has ended without raising, every changed source that has a
\* handler having had its call.
C35_HandlersBeforeOnChange ==
    [][(ProcessCalled /\ b_agg' # <<>>) =>
          /\ b_raised' = "none"
          /\ Len(b_agg') = 1
          /\ \A b \in Changed :
                b_slot[b] = "fn" => \E i \in DOMAIN b_calls' : b_calls'[i][1] = b]_vars

\* a process() call has called the handlers of two changed sources, then on_change
C35_Witness ==
    /\ Len(b_calls) = 2
    /\ Len(b_agg) = 1
    /\ b_raised = "none"

\* C36: after every process() call, ended by a return or by an exception, the
\* stored state is the set the call read, and the next call invokes handlers
\* only for sources that differ between the set it reads and that set.
C36_StateStoredWhateverRaised ==
    /\ [][ProcessCalled => _state'.elems = b_new']_vars
    /\ [][ProcessCalled =>
            \A i \in DOMAIN b_calls' :
               b_calls'[i][1] \in SymmetricDifference(b_new', b_new)]_vars

\* a process() call a handler has raised out of, with the set read stored
C36_Witness ==
    /\ b_raised = "Exception"
    /\ b_calls # <<>>
    /\ b_new # {}
    /\ _state.elems = b_new

(***************************************************************************)
(* Properties of the background tasks when a poll fails                    *)
(***************************************************************************)
\* the scanner thread t leaves the process() call it was in
ScanPollEnds(t) == t_pc[t] = "in_process" /\ t_pc'[t] # "in_process"

\* the monitor thread leaves the read of the motors' state and position
MonitorPollEnds == m_pc = "poll" /\ m_pc' # "poll"

\* C11: a poll of a background task, failed or not, leaves the task alive: after
\* process() has ended in the scanner loop, and after the attribute reads have
\* ended in the monitor loop, the thread is still running its loop.
C11_FailedPollIgnored ==
    [][/\ \A t \in Scanners : ScanPollEnds(t) => t_pc'[t] # "dead"
       /\ MonitorPollEnds => m_pc' # "done"]_vars
\* C12: a monitor whose poll met a vanished attribute file has terminated in a
\* reported stalled-equivalent state: it is no longer running, and its stalled
\* property is true or its on_stalled callback has been invoked.
C12_DeviceGoneReported ==
    exit_by = "Raised" => /\ ~IsAlive
                          /\ (_stalled \/ n_stalled > 0)
(***************************************************************************)
(* Properties of the Device constructor                                    *)
(***************************************************************************)
\* the entry glob-matches the name pattern and satisfies every criterion; an
\* entry without the attribute file of a criterion does not satisfy it
Qualifies(e, name, kwargs) ==
    /\ Fnmatch(e.name, name)
    /\ \A k \in DOMAIN kwargs : e[k] # NoFile /\ Matches(e, k, kwargs[k])

\* the places of the listing whose entry qualifies for the call made
Qualifying == {i \in DOMAIN tree : Qualifies(tree[i], d_new.name, d_new.kwargs)}

Constructed == d_new.end # "none"

\* C14: the constructor returns normally, with connected true exactly when some
\* entry of the class directory qualifies, and false (without raising) when
\* none does, entries lacking a criterion attribute included.
C14_ConnectedIffSomeEntryQualifies ==
    Constructed => /\ d_new.end = "returned"
                   /\ connected <=> Qualifying # {}

\* C15: when entries qualify, the device is bound to the first of them in
\* listing order: its path names that entry and its attribute cache reads the
\* files of that entry.
C15_BindsFirstQualifying ==
    (Constructed /\ Qualifying # {}) =>
        /\ d_new.end = "returned" /\ connected
        /\ _attribute_cache = "DeviceFileCache"
        /\ \A i \in Qualifying : _path <= i
        /\ _path \in Qualifying
        /\ \A k \in CritAttrs : sysfs[k] = tree[_path][k]

\* the longest run of decimal digits a name ends with
RECURSIVE TrailingDigits(_)
TrailingDigits(name) ==
    IF name # <<>> /\ IsDigit(name[Len(name)])
    THEN Append(TrailingDigits(SubSeq(name, 1, Len(name) - 1)), name[Len(name)])
    ELSE <<>>

\* C16: after a successful bind, device_index is the integer the whole run of
\* trailing digits of the matched name denotes, and None when the name does
\* not end with a digit.
C16_DeviceIndexIsTrailingInteger ==
    (Constructed /\ connected) =>
        LET run == TrailingDigits(tree[_path].name)
        IN  _device_index = IF run = <<>> THEN <<>> ELSE <<DigitsToNat(run)>>
(***************************************************************************)
(* Properties of the attribute operations                                  *)
(***************************************************************************)
\* the exception an attribute operation raises on a device without a cache: the
\* AttributeError of calling a method of None
NotConnected == "AttributeError"

\* an attribute operation has been called on the device
Operated == d_new.end = "returned" /\ d_ret.op # "none"

\* C13: on a device with connected false every attribute operation (typed
\* getters and setters, command write, file handle) raises the error of the
\* absent cache, an error no operation of a connected device raises, and
\* accesses no file: nothing is tested for existence, opened, read or written.
C13_UnconnectedOpsFail ==
    /\ (Operated /\ ~connected) =>
          /\ d_ret.exc = NotConnected
          /\ ~d_ret.fs
          /\ d_ret.h = NoHandle
          /\ \A k \in Keys : _cache[k] = NoHandle /\ n_open[k] = 0 /\ sysfs[k] = NoFile
    /\ (Operated /\ connected) => d_ret.exc # NotConnected

\* a set_attr_int() that failed on a device left unbound over a directory that
\* has entries
C13_Witness ==
    /\ Operated /\ ~connected
    /\ tree # <<>>
    /\ d_ret.op = "set_attr_int"
    /\ d_ret.exc = NotConnected
\* C17: whatever the sequence of file_handle, read and write calls, a key of
\* the cache is opened at most once, its handle never changes, and every call
\* for that key gets that handle, whatever binary flag the call passes.
C17_OneHandlePerKey ==
    /\ [](\A k \in Keys : n_open[k] <= 1 /\ (n_open[k] = 1 <=> _cache[k] # NoHandle))
    /\ [][\A k \in Keys : _cache[k] # NoHandle =>
             /\ _cache'[k] = _cache[k]
             /\ (d_ret'.key = k /\ d_ret'.h # NoHandle) => d_ret'.h = _cache[k]]_vars

\* a binary file_handle() call answered with the text-mode handle opened before
C17_Witness ==
    /\ d_ret.op = "file_handle"
    /\ d_ret.arg = <<TRUE>>
    /\ d_ret.exc = "none"
    /\ d_ret.h = _cache[d_ret.key]
    /\ ~d_ret.h.mode.b
    /\ n_open[d_ret.key] = 1
\* get_attr_int() is called on the attribute the last operation, a
\* set_attr_int(), wrote
SetThenGet ==
    /\ connected
    /\ d_ret.op = "set_attr_int"
    /\ Writable(d_ret.key) /\ Readable(d_ret.key)
    /\ d_ret'.op = "get_attr_int"
    /\ d_ret'.key = d_ret.key

\* C18: on a writable integer attribute, set_attr_int(v) followed by
\* get_attr_int() returns v, whatever was written to the attribute before,
\* longer values included.
C18_SetThenGetInt ==
    [][SetThenGet => /\ d_ret.exc = "none"
                     /\ d_ret'.exc = "none"
                     /\ d_ret'.val = d_ret.arg]_vars

\* 5 read back from an attribute whose longer text a write has replaced
C18_Witness ==
    /\ d_ret.op = "get_attr_int"
    /\ d_ret.key = "speed_sp"
    /\ d_ret.exc = "none"
    /\ d_ret.val = <<5>>
    /\ w_over

\* the exception the getter of a write-only property raises
WriteOnly == "Exception"

\* the last operation is the getter of a write-only property, and the one
\* before was another operation
WriteOnlyRead ==
    d_ret'.op = "get" /\ (d_ret.op # "get" \/ d_ret.key # d_ret'.key)

\* C27: reading a write-only property (command, set_device) raises an
\* exception no other operation raises, and tests, opens, reads and writes no
\* file; writing it on a connected device that has the attribute writes the
\* value to the attribute file through a handle opened for writing.
C27_WriteOnlyRejectsReads ==
    /\ [](d_ret.op = "get" =>
             /\ d_ret.exc = WriteOnly
             /\ ~d_ret.fs
             /\ d_ret.h = NoHandle
             /\ d_ret.wrote = <<>>)
    /\ [](d_ret.op # "get" => d_ret.exc # WriteOnly)
    /\ []((d_ret.op \in WriteOnlyProps /\ connected /\ ~d_ret.absent) =>
             /\ d_ret.exc = "none"
             /\ d_ret.fs
             /\ d_ret.h.mode.m = "a"
             /\ d_ret.wrote = <<d_ret.arg>>)
    /\ [][WriteOnlyRead => _cache' = _cache /\ n_open' = n_open /\ sysfs' = sysfs]_vars

\* set_device has been written, and then read: the read raised and the file
\* was opened once, by the write
C27_Witness ==
    /\ connected
    /\ d_ret.op = "get"
    /\ d_ret.key = "set_device"
    /\ d_ret.exc = WriteOnly
    /\ n_open["set_device"] = 1
    /\ _cache["set_device"].mode.m = "a"
    /\ n_open["command"] = 0

\* get_attr_int, set_attr_int, get_attr_string, set_attr_string, get_attr_set
TypedAccessors ==
    {"get_attr_int", "set_attr_int", "get_attr_string", "set_attr_string", "get_attr_set"}

\* C28: a typed accessor that reaches the attribute store of a connected
\* device for an attribute whose file is absent, never there or removed after
\* its handle was cached, raises AttributeError.
C28_AbsentIsAttributeError ==
    (d_ret.op \in TypedAccessors /\ connected /\ d_ret.absent /\ d_ret.fs) =>
        d_ret.exc = "AttributeError"

\* the last operation is a set_attr_int() of a connected device with a value
\* that is not an integer: a float that has a fraction, or a string that is not
\* the text of an integer
NotAnInteger ==
    /\ d_ret.op = "set_attr_int" /\ connected
    /\ Len(d_ret.arg) = 4
    /\ IF d_ret.arg[1] = "float" THEN Rat(d_ret.arg[2], d_ret.arg[3]).d # 1
       ELSE PyInt(d_ret.arg[4]) = <<>>

\* C29: set_attr_int() with a value that does not round-trip through the
\* integer conversion raises ValueError and writes nothing to the attribute
\* file.
C29_NonIntegerRejected ==
    NotAnInteger => d_ret.exc = "ValueError" /\ d_ret.wrote = <<>>

\* the scanner thread t is alive and calling process(): at the call or inside it
Scanning(t) == t_pc[t] \in {"call", "in_process"}

\* C33: whatever start_scanner() and stop_scanner() calls were made, a stop
\* whose join expired included, at most one scanner thread of the manager is
\* alive and calling process().
C33_AtMostOneScanner ==
    \A t, u \in Scanners : (Scanning(t) /\ Scanning(u)) => t = u

\* C32: a motor constructed with a port argument is constructed, and if it is
\* bound, it is bound to an entry whose port_name contains the port.
C32_MotorBindsOnItsPort ==
    (d_new.end # "none" /\ d_new.port # <<>>) =>
        /\ d_new.end = "returned"
        /\ connected => Find(tree[_path].port_name[1], d_new.port)

\* the last operation is a file_handle() call that opened the file of key k
OpenedBy(k) ==
    /\ d_ret'.op = "file_handle"
    /\ d_ret'.key = k
    /\ n_open'[k] = n_open[k] + 1

\* C31: a cached handle was opened with 'a+' if its file is readable and
\* writable, 'a' if it is writable only, 'r' otherwise, and as binary if the
\* file_handle() call that opened it asked for binary; an operation on a path
\* that does not exist raises ValueError and leaves the cache without an entry
\* for the key.
C31_OpenModeByPermissions ==
    /\ [](\A k \in Keys : _cache[k] # NoHandle =>
             _cache[k].mode.m = CASE Readable(k) /\ Writable(k) -> "a+"
                                  [] ~Readable(k) /\ Writable(k) -> "a"
                                  [] OTHER -> "r")
    /\ []((Operated /\ connected /\ d_ret.absent) =>
             /\ d_ret.exc = "ValueError"
             /\ _cache[d_ret.key] = NoHandle
             /\ n_open[d_ret.key] = 0)
    /\ [][\A k \in Keys : OpenedBy(k) =>
             /\ _cache'[k] = d_ret'.h
             /\ d_ret'.h.mode.b = d_ret'.arg[1]]_vars

\* file_handle('speed_sp', binary=True) has opened the file with 'a+b', and
\* the read-only and the write-only files are open with 'r' and 'a'
C31_Witness ==
    /\ d_ret.op = "file_handle"
    /\ d_ret.key = "speed_sp"
    /\ d_ret.h.mode = [m |-> "a+", b |-> TRUE]
    /\ _cache["port_name"] # NoHandle /\ _cache["port_name"].mode.m = "r"
    /\ _cache["command"] # NoHandle /\ _cache["command"].mode.m = "a"

(***************************************************************************)
(* Properties of the sensor                                                *)
(***************************************************************************)
\* the byte width of a format: 1 for 8 bits, 2 for 16 bits, 4 for 32 bits and float
ByteWidth(format) ==
    IF format \in {"u8", "s8"} THEN 1
    ELSE IF format \in {"u16", "s16", "s16_be"} THEN 2
    ELSE 4

\* C30: once bin_data() has been called, the cached block size is the byte
\* width of a format of the sensor times a count of values, the format and the
\* count attributes have been read once, and the call has read that many bytes
\* of the bin_data attribute of the sensor.
C30_BinDataSizeCachedAndRead ==
    sn_calls > 0 =>
        /\ \E format \in Formats, count \in NumValues :
              _bin_data_size = Some(ByteWidth(format) * count)
        /\ sn_reads.bin_data_format = 1 /\ sn_reads.num_values = 1
        /\ sn_ret.exc = "none"
        /\ sn_ret.path \in BinFiles
        /\ sn_ret.nbytes = _bin_data_size[1]

\* the path lies inside the directory of the device
InsideDevice(path) ==
    /\ Len(path) > Len(DeviceClasspath) + 1
    /\ SubSeq(path, 1, Len(DeviceClasspath) + 1) = DeviceClasspath \o <<"/">>

\* C39: the path the cache of the sensor hands to open for bin_data() lies
\* inside the directory of the device: it is the class path of the device
\* joined with the name bin_data.
C39_OpensInsideDeviceDirectory ==
    sn_calls > 0 =>
        /\ InsideDevice(sn_ret.path)
        /\ sn_ret.path = DeviceClasspath \o <<"/", "b", "i", "n", "_", "d", "a", "t", "a">>
====
